---- MODULE Spec2Model ----
(***************************************************************************)
(* A model of the storage core of bambang: the B+ tree operations of       *)
(* bindereh (operator/tree.rs, operator/insert.rs, operator/delete.rs)     *)
(* over the page manager (manager.rs), the leaf registry                   *)
(* (leaf_registry.rs) and the buffer pool (pool.rs).                       *)
(*                                                                         *)
(* Option<u64> page ids are written as naturals with 0 for None: page 0 is *)
(* reserved, allocate_page starts at 1, and the page codec itself writes   *)
(* None as 0.                                                              *)
(*                                                                         *)
(* The tree specifications (SpecInsert, SpecTree) run the operations one   *)
(* at a time (the single-writer rule) against a buffer pool that is large  *)
(* enough never to evict, so that read_page returns the page that the last *)
(* write_page put into the pool; `pages` is that view.                     *)
(***************************************************************************)
EXTENDS Integers, Sequences, FiniteSets, TLC

\* ---------------------------------------------------------------- constants

MAX_KEYS_PER_NODE == 4

MIN_KEYS_PER_NODE == 63

\* ------------------------------------------------------------------- bounds

\* keys offered to the insert-only specification are 1..MaxKey
MaxKey == 9

\* the specification with deletes starts from a table loaded with the rows
\* 1..LoadKeys, the rows GapFirst..GapLast left out; those are the keys its
\* inserts, single deletes and predicates name
LoadKeys == 16

GapFirst == 10

GapLast == 12

\* an insert starts only while next_page_id <= MaxPageId
MaxPageId == 10

\* recursion depth after which a descent or a repair is taken to overflow
\* the stack (only a cyclic page graph gets there)
Fuel == 12

\* a truncate starts only while the registry file holds fewer ids than this
MaxRegistry == 8

\* the page file of the concurrent specification holds the pages
\* 1..NumPages, read by NumReaders threads while one more thread writes
NumPages == 2

NumReaders == 2

\* write_page is called at most MaxWrites times
MaxWrites == 2

\* Pool.max_pages, the buffer_size handed to Manager::new
max_pages == 1

\* the pool operations are called with the page ids 1..MaxPoolId
MaxPoolId == 3

\* allocate_page is called by NumAllocators tasks, MaxAllocs times in all
NumAllocators == 2

MaxAllocs == 2

\* truncate is called at most MaxTruncates times
MaxTruncates == 1

\* the caller of the manager writes at most MaxManagerWrites pages between
\* the allocations and the truncates
MaxManagerWrites == 1

\* the caller registers a leaf while the registry holds fewer ids than this
MaxRegistered == 1

\* read_pages_batch is called with up to MaxBatch ids, on a manager whose
\* pool was made for 1..MaxBufferSize pages
MaxBatch == 3

MaxBufferSize == 2

\* the scans read a table loaded with the keys 1..ScanLoad, or loaded,
\* truncated and loaded again with the keys 1..Reload; their limit is at most
\* MaxLimit
ScanLoad == 9

Reload == 3

MaxLimit == 2

\* ScanOperation::new(manager, 2): the workers of a parallel scan
max_workers == 2

\* the predicates are evaluated on rows whose values, and against literals
\* whose payloads, are the integers 1..MaxVal, the strings coded 1..MaxVal,
\* and the booleans
MaxVal == 2

\* the joins take up to MaxJoinRows rows on either side
MaxJoinRows == 2

\* the width of usize in the model: start_index and batch_size are below
\* 2^UsizeBits
UsizeBits == 3

\* the most ids the registry file is given
MaxEntries == 3

\* the most bytes put before and after an encoded value
MaxPad == 1

\* the specification with updates inserts the keys 1..MaxUpdateKey, and its
\* predicates and new rows name them
MaxUpdateKey == 5

\* an insert of the specification with updates starts only while
\* next_page_id <= MaxUpdatePageId
MaxUpdatePageId == 3

\* the batches of the batch insert name the keys 1..MaxBatchKey
MaxBatchKey == 6

\* a batch holds at most MaxBatchLen rows
MaxBatchLen == 2

\* an insert of the specification with batches starts only while
\* next_page_id <= MaxBatchPageId
MaxBatchPageId == 3

\* the operations on evictions and dirty pages are called with the page ids
\* 1..MaxDirtyId
MaxDirtyId == 2

\* the reads of one leaf that are counted, and the reads of the faulty leaf
\* that fail when the fault is not persistent
MaxRequests == 3
MaxFaults == 2

\* the keys and the pages of the tables whose registry is validated and
\* rebuilt, and the registries a rebuild may find: their ids and their length
MaxRebuildKey == 4
MaxRebuildPageId == 7
MaxStaleId == 2
MaxStaleLen == 2

None == 0

VARIABLES
    pages,          \* page_id -> Page: what read_page returns (pool over file)
    leaf_registry,  \* the ids of the .registry file, in file order
    next_page_id,   \* Manager.next_page_id
    root_page_id,   \* the root id the caller tracks
    expected,       \* ghost: the keys a correct tree would hold now
    perm,           \* ghost: every operation so far inserted a new key
    last,           \* ghost: the operation that produced this state
    file,           \* the page file, by half-page offset
    cursor,         \* the position of the one File handle
    file_lock,      \* the thread holding Manager.file, or None
    cache,          \* Pool.cache: page_id -> the cached page (LRUNode.page)
    lru,            \* Pool.cache: page_id -> LRUNode.prev and LRUNode.next
    head,           \* Pool.head
    tail,           \* Pool.tail
    buffer_size,    \* Pool.max_pages, as Manager::new was given it
    dirty_pages,    \* Pool.dirty_pages: the ids it holds
    recency,        \* ghost: the ids by their last get_page hit or put_page,
                    \* the latest first
    cache_stuck,    \* a thread blocked for good inside Pool with cache locked
    pc,             \* thread -> where it is in read_page or write_page
    arg,            \* thread -> the page id it reads or writes
    buf,            \* reader -> what its read_page has got so far
    started,        \* ghost: page_id -> write_page calls begun
    committed,      \* ghost: page_id -> write_page calls returned
    lo,             \* ghost: reader -> committed[arg] when its read began
    next_id_lock,   \* the task holding Manager.next_page_id, or None
    apc,            \* task -> where it is in allocate_page
    held_id,        \* task -> the local page_id of its allocate_page
    returned,       \* ghost: what allocate_page returned since the counter
                    \* was last set to 1, in the order of the returns
    all_returned,   \* ghost: what allocate_page returned since Manager::new
    tpc,            \* where the caller of truncate is
    truncated,      \* ghost: truncate calls begun
    options,        \* <<the ScanOptions of the parallel scan under way>>, or <<>>
    workers,        \* worker_id -> the locals of its registry worker
    total_rows_found, \* the AtomicUsize the workers share
    should_stop,    \* the AtomicBool the workers share
    completed,      \* the worker tasks that ended, in the order they ended
    collector,      \* the locals of parallel_scan while it collects
    registry_file,  \* LeafRegistry.file: its count field and the u64 words
                    \* after the header
    registered,     \* ghost: the page ids the calls have added and not
                    \* removed, in the order of the additions
    sequential      \* the locals of a sequential_scan in progress

treeVars == <<pages, leaf_registry, next_page_id, root_page_id, expected, perm,
              last>>

lruVars == <<lru, head, tail, recency, buffer_size>>

\* the table and its ghosts, without `last`
tableVars == <<pages, leaf_registry, next_page_id, root_page_id, expected,
               perm>>

\* the page file and the threads of read_page and write_page
fileVars == <<file, cursor, file_lock, pc, arg, buf, started, committed, lo>>

ioVars == <<file, cursor, file_lock, cache, lruVars, dirty_pages, cache_stuck,
            pc, arg, buf, started, committed, lo>>

\* the tasks calling allocate_page, and the caller of truncate
allocVars == <<next_id_lock, apc, held_id, returned, all_returned, tpc,
               truncated>>

\* a parallel scan and its workers
scanVars == <<options, workers, total_rows_found, should_stop, completed,
              collector>>

\* the leaf registry file, and the sequence it stands for
regVars == <<registry_file, registered>>

taskVars == <<allocVars, scanVars, regVars, sequential>>

vars == <<treeVars, ioVars, taskVars>>

\* ------------------------------------------------------------ small helpers

Min(S) == CHOOSE x \in S : \A y \in S : x <= y

Range(seq) == {seq[i] : i \in 1..Len(seq)}

\* Vec::insert(pos, x), pos counted from 0 (the caller checks pos <= len)
InsertAt(seq, pos, x) ==
    SubSeq(seq, 1, pos) \o <<x>> \o SubSeq(seq, pos + 1, Len(seq))

\* Vec::remove(pos), pos counted from 0 (the caller checks pos < len)
RemoveAt(seq, pos) ==
    SubSeq(seq, 1, pos) \o SubSeq(seq, pos + 2, Len(seq))

\* a row of two columns: its key, and the key's parity
Row(k) == [id |-> k, data |-> <<k, k % 2>>]

Page(id, leaf, parent, keys, values, children, next) ==
    [page_id |-> id, is_leaf |-> leaf, parent_page_id |-> parent,
     keys |-> keys, values |-> values, child_page_ids |-> children,
     next_leaf_page_id |-> next, is_dirty |-> TRUE]

\* the store the operations thread through their steps
Store == [pages |-> pages, reg |-> leaf_registry, next |-> next_page_id]

Ok(s, v) == [s |-> s, ok |-> TRUE, v |-> v]

Err(s, e) == [s |-> s, ok |-> FALSE, v |-> e]

\* the result of a call under a name: Only({e : r \in {call}}) is e with r
\* standing for what the call returned
Only(S) == CHOOSE x \in S : TRUE

\* ------------------------------------------------------------- page manager

\* read_page succeeds on a page that is in the pool or in the file
HasPage(s, id) == id \in DOMAIN s.pages

\* write_page: the file and the pool now hold this page
write_page(s, page) ==
    [s EXCEPT !.pages = (page.page_id :> page) @@ s.pages]

\* allocate_page: the id returned is s.next
allocate_page(s) == [s EXCEPT !.next = s.next + 1]

\* a registration that is forgotten
register_nothing(s, id) == s

\* LeafPageRegistry::add_leaf_page appends
register_leaf_page(s, id) == [s EXCEPT !.reg = Append(s.reg, id)]

\* slice::binary_search (the loop of core::slice::binary_search_by)
RECURSIVE BsLoop(_, _, _, _)
BsLoop(keys, key, base, size) ==
    IF size > 1
    THEN LET half == size \div 2
             mid == base + half
         IN BsLoop(keys, key, IF keys[mid + 1] > key THEN base ELSE mid,
                   size - half)
    ELSE base

binary_search(keys, key) ==
    IF Len(keys) = 0 THEN [found |-> FALSE, pos |-> 0]
    ELSE LET base == BsLoop(keys, key, 0, Len(keys))
             e == keys[base + 1]
         IN IF e = key THEN [found |-> TRUE, pos |-> base]
            ELSE [found |-> FALSE, pos |-> base + (IF e < key THEN 1 ELSE 0)]

\* ------------------------------------------------------------------ descent

\* the child index find_leaf_for_key picks (counted from 0)
ChildIndex(keys, key) ==
    LET less == {i \in 1..Len(keys) : key < keys[i]}
    IN IF less = {} THEN Len(keys) ELSE Min(less) - 1

RECURSIVE find_leaf_for_key(_, _, _, _)
find_leaf_for_key(s, key, node, fuel) ==
    IF node.is_leaf THEN Ok(s, node.page_id)
    ELSE LET ci == ChildIndex(node.keys, key)
         IN IF fuel = 0 \/ ci + 1 > Len(node.child_page_ids)
            THEN Err(s, "panic")
            ELSE LET child == node.child_page_ids[ci + 1]
                 IN IF ~HasPage(s, child) THEN Err(s, "IoError")
                    ELSE find_leaf_for_key(s, key, s.pages[child], fuel - 1)

RECURSIVE find_leftmost_leaf(_, _, _)
find_leftmost_leaf(s, page_id, fuel) ==
    IF ~HasPage(s, page_id) THEN Err(s, "IoError")
    ELSE LET page == s.pages[page_id]
         IN IF page.is_leaf THEN Ok(s, page_id)
            ELSE IF fuel = 0 THEN Err(s, "panic")
            ELSE IF Len(page.child_page_ids) > 0
                 THEN find_leftmost_leaf(s, page.child_page_ids[1], fuel - 1)
                 ELSE Ok(s, None)

\* ------------------------------------------------------------------- insert

create_new_root(s0, left_child_id, key, right_child_id) ==
    LET new_root_id == s0.next
        s1 == allocate_page(s0)
        new_root == Page(new_root_id, FALSE, None, <<key>>, <<>>,
                         <<left_child_id, right_child_id>>, None)
    IN IF ~HasPage(s1, left_child_id) THEN Err(s1, "IoError")
       ELSE LET s2 == write_page(s1,
                        [s1.pages[left_child_id] EXCEPT
                            !.parent_page_id = new_root_id, !.is_dirty = TRUE])
            IN IF ~HasPage(s2, right_child_id) THEN Err(s2, "IoError")
               ELSE LET s3 == write_page(s2,
                                [s2.pages[right_child_id] EXCEPT
                                    !.parent_page_id = new_root_id,
                                    !.is_dirty = TRUE])
                    IN Ok(write_page(s3, new_root), new_root_id)

\* the result also carries the caller's node, which split_off has shortened
split_leaf_node(s0, node) ==
    LET mid_point == Len(node.keys) \div 2
        new_page_id == s0.next
        s1 == allocate_page(s0)
        new_node == Page(new_page_id, TRUE, node.parent_page_id,
                         SubSeq(node.keys, mid_point + 1, Len(node.keys)),
                         SubSeq(node.values, mid_point + 1, Len(node.values)),
                         <<>>, node.next_leaf_page_id)
        node1 == [node EXCEPT !.keys = SubSeq(node.keys, 1, mid_point),
                              !.values = SubSeq(node.values, 1, mid_point),
                              !.next_leaf_page_id = new_page_id]
        promoted_key == new_node.keys[1]
        s2 == register_leaf_page(write_page(s1, new_node), new_page_id)
    IN IF node.parent_page_id = None
       THEN Only({[s |-> r.s, ok |-> r.ok, node |-> node1, kind |-> "NewRoot",
                   key |-> promoted_key, id |-> r.v] :
                  r \in {create_new_root(s2, node.page_id, promoted_key,
                                         new_page_id)}})
       ELSE [s |-> s2, ok |-> TRUE, node |-> node1, kind |-> "PromotedKey",
             key |-> promoted_key, id |-> new_page_id]

\* the loop of split_internal_node that re-parents the moved children
RECURSIVE Reparent(_, _, _)
Reparent(s, children, parent_id) ==
    IF children = <<>> THEN Ok(s, None)
    ELSE IF ~HasPage(s, Head(children)) THEN Err(s, "IoError")
    ELSE Reparent(write_page(s, [s.pages[Head(children)] EXCEPT
                                    !.parent_page_id = parent_id,
                                    !.is_dirty = TRUE]),
                  Tail(children), parent_id)

split_internal_node(s0, node) ==
    LET mid_point == Len(node.keys) \div 2
        promoted_key == node.keys[mid_point + 1]
        new_page_id == s0.next
        s1 == allocate_page(s0)
    IN IF mid_point + 1 > Len(node.child_page_ids)
       THEN [s |-> s1, ok |-> FALSE, node |-> node, kind |-> "panic",
             key |-> 0, id |-> 0]
       ELSE
       LET new_node == Page(new_page_id, FALSE, node.parent_page_id,
                            SubSeq(node.keys, mid_point + 2, Len(node.keys)),
                            <<>>,
                            SubSeq(node.child_page_ids, mid_point + 2,
                                   Len(node.child_page_ids)),
                            None)
           node1 == [node EXCEPT !.keys = SubSeq(node.keys, 1, mid_point),
                                 !.child_page_ids =
                                     SubSeq(node.child_page_ids, 1, mid_point + 1),
                                 !.is_dirty = TRUE]
       IN Only({
          IF ~rp.ok
          THEN [s |-> rp.s, ok |-> FALSE, node |-> node1, kind |-> "IoError",
                key |-> 0, id |-> 0]
          ELSE LET s2 == write_page(rp.s, new_node)
               IN IF node.parent_page_id = None
                  THEN Only({[s |-> r.s, ok |-> r.ok, node |-> node1,
                              kind |-> "NewRoot", key |-> promoted_key,
                              id |-> r.v] :
                             r \in {create_new_root(s2, node.page_id,
                                                    promoted_key, new_page_id)}})
                  ELSE [s |-> s2, ok |-> TRUE, node |-> node1,
                        kind |-> "PromotedKey", key |-> promoted_key,
                        id |-> new_page_id] :
          rp \in {Reparent(s1, new_node.child_page_ids, new_page_id)}})

RECURSIVE insert_into_parent(_, _, _, _, _)
insert_into_parent(s, parent_page_id, key, right_child_id, fuel) ==
    IF parent_page_id = None THEN Ok(s, None)
    ELSE IF ~HasPage(s, parent_page_id) THEN Err(s, "IoError")
    ELSE
    LET parent0 == s.pages[parent_page_id]
        insert_pos == binary_search(parent0.keys, key).pos
    IN IF insert_pos + 1 > Len(parent0.child_page_ids) \/ fuel = 0
       THEN Err(s, "panic")
       ELSE
       LET parent_node ==
               [parent0 EXCEPT
                   !.keys = InsertAt(@, insert_pos, key),
                   !.child_page_ids = InsertAt(@, insert_pos + 1, right_child_id),
                   !.is_dirty = TRUE]
       IN IF Len(parent_node.keys) > MAX_KEYS_PER_NODE
          THEN Only({
               IF ~sp.ok THEN Err(sp.s, sp.kind)
               ELSE IF sp.kind = "NewRoot"
               THEN Ok(write_page(sp.s, sp.node), sp.id)
               ELSE insert_into_parent(write_page(sp.s, sp.node),
                                       sp.node.parent_page_id, sp.key, sp.id,
                                       fuel - 1) :
               sp \in {split_internal_node(s, parent_node)}})
          ELSE Ok(write_page(s, parent_node), None)

\* InsertOperation::execute; v is new_root_id, or the error
execute(s, row, root) ==
    IF ~HasPage(s, root) THEN Err(s, "IoError")
    ELSE
    LET f == find_leaf_for_key(s, row.id, s.pages[root], Fuel)
    IN IF ~f.ok THEN Err(s, f.v)
       ELSE
       LET leaf0 == s.pages[f.v]
           bs == binary_search(leaf0.keys, row.id)
       IN IF bs.found THEN Err(s, "DuplicateKey")
          ELSE IF bs.pos > Len(leaf0.values) THEN Err(s, "panic")
          ELSE
          LET leaf1 == [leaf0 EXCEPT !.keys = InsertAt(@, bs.pos, row.id),
                                     !.values = InsertAt(@, bs.pos, row),
                                     !.is_dirty = TRUE]
          IN IF Len(leaf1.keys) > MAX_KEYS_PER_NODE
             THEN Only({
                  IF ~sp.ok THEN Err(sp.s, "IoError")
                  ELSE IF sp.kind = "NewRoot"
                  THEN Ok(write_page(sp.s, sp.node), sp.id)
                  ELSE Only({IF ~ip.ok THEN Err(ip.s, ip.v)
                             ELSE Ok(write_page(ip.s, sp.node), ip.v) :
                             ip \in {insert_into_parent(sp.s,
                                         sp.node.parent_page_id, sp.key, sp.id,
                                         Fuel)}}) :
                  sp \in {split_leaf_node(s, leaf1)}})
             ELSE Ok(write_page(s, leaf1), None)

\* InsertOperation::execute_batch: the rows one at a time, each under the
\* root the inserts before it left
\* a batch that hands every row the root id the batch was called with
RECURSIVE execute_batch_first_root(_, _, _, _)
execute_batch_first_root(s, rows, current_root_id, final_new_root_id) ==
    IF rows = <<>> THEN Ok(s, final_new_root_id)
    ELSE Only({IF ~r.ok THEN r
               ELSE execute_batch_first_root(r.s, Tail(rows), current_root_id,
                        IF r.v # None THEN r.v ELSE final_new_root_id) :
               r \in {execute(s, Head(rows), current_root_id)}})

RECURSIVE execute_batch(_, _, _, _)
execute_batch(s, rows, current_root_id, final_new_root_id) ==
    IF rows = <<>> THEN Ok(s, final_new_root_id)
    ELSE Only({IF ~r.ok THEN r
               ELSE IF r.v # None
               THEN execute_batch(r.s, Tail(rows), r.v, r.v)
               ELSE execute_batch(r.s, Tail(rows), current_root_id,
                                  final_new_root_id) :
               r \in {execute(s, Head(rows), current_root_id)}})

\* ------------------------------------------------------------------- delete

\* LeafPageRegistry::remove_leaf_page drops the first occurrence of the id
unregister_leaf_page(s, id) ==
    LET hits == {i \in 1..Len(s.reg) : s.reg[i] = id}
    IN IF hits = {} THEN s
       ELSE [s EXCEPT !.reg = RemoveAt(s.reg, Min(hits) - 1)]

\* Manager::deallocate_page: the frame stays in the file until it is
\* overwritten (pages are freed only implicitly)
deallocate_page(s, id) == s

\* Vec position of the first element equal to x, counted from 0; -1 for None
Position(seq, x) ==
    LET hits == {i \in 1..Len(seq) : seq[i] = x}
    IN IF hits = {} THEN -1 ELSE Min(hits) - 1

\* v is "Success" or "Underflow"
delete_from_leaf(s, leaf_page_id, key) ==
    IF ~HasPage(s, leaf_page_id) THEN Err(s, "IoError")
    ELSE
    LET leaf0 == s.pages[leaf_page_id]
        pos == Position(leaf0.keys, key)
    IN IF pos = -1 THEN Ok(s, "Success")
       ELSE IF pos >= Len(leaf0.values) THEN Err(s, "panic")
       ELSE
       LET leaf_page == [leaf0 EXCEPT !.keys = RemoveAt(@, pos),
                                      !.values = RemoveAt(@, pos),
                                      !.is_dirty = TRUE]
       IN IF Len(leaf_page.keys) < MIN_KEYS_PER_NODE
             /\ leaf_page.parent_page_id # None
          THEN Ok(write_page(s, leaf_page), "Underflow")
          ELSE Ok(write_page(s, leaf_page), "Success")

\* the removal loop of delete_entries_from_leaf: `indices` is a set of
\* positions counted from 0, taken in descending order
RECURSIVE RemoveIndices(_, _)
RemoveIndices(page, indices) ==
    IF indices = {} THEN page
    ELSE LET index == CHOOSE i \in indices : \A j \in indices : j <= i
         IN RemoveIndices(
                IF index < Len(page.keys)
                THEN [page EXCEPT !.keys = RemoveAt(@, index),
                                  !.values = RemoveAt(@, index)]
                ELSE page,
                indices \ {index})

\* v is "Success", "Underflow" or "RootDeleted"
delete_entries_from_leaf(s, leaf_page_id, indices_to_delete) ==
    IF ~HasPage(s, leaf_page_id) THEN Err(s, "IoError")
    ELSE IF indices_to_delete = {} THEN Ok(s, "Success")
    ELSE
    LET leaf_page == [RemoveIndices(s.pages[leaf_page_id], indices_to_delete)
                         EXCEPT !.is_dirty = TRUE]
    IN IF Len(leaf_page.keys) < MIN_KEYS_PER_NODE
          /\ leaf_page.parent_page_id # None
       THEN Ok(write_page(s, leaf_page), "Underflow")
       ELSE IF Len(leaf_page.keys) = 0 /\ leaf_page.parent_page_id = None
       THEN Ok(write_page(s, leaf_page), "RootDeleted")
       ELSE Ok(write_page(s, leaf_page), "Success")

\* v is "Borrowed"; an Err is what handle_underflow ignores, a panic is not
try_borrow_from_left(s, page_id, left_sibling_id, parent_id, page_index) ==
    IF ~HasPage(s, left_sibling_id) \/ ~HasPage(s, page_id)
       \/ ~HasPage(s, parent_id)
    THEN Err(s, "IoError")
    ELSE
    LET left_sibling == s.pages[left_sibling_id]
        page == s.pages[page_id]
        parent == s.pages[parent_id]
    IN IF Len(left_sibling.keys) <= MIN_KEYS_PER_NODE
       THEN Err(s, "InvalidInput")
       ELSE IF page_index > Len(parent.keys) THEN Err(s, "panic")
       ELSE
       LET borrowed_key == left_sibling.keys[Len(left_sibling.keys)]
           parent1 == [parent EXCEPT !.keys[page_index] = borrowed_key,
                                     !.is_dirty = TRUE]
       IN IF page.is_leaf
          THEN IF Len(left_sibling.values) = 0 THEN Err(s, "panic")
               ELSE
               LET left1 == [left_sibling EXCEPT
                               !.keys = SubSeq(@, 1, Len(@) - 1),
                               !.values = SubSeq(@, 1, Len(@) - 1),
                               !.is_dirty = TRUE]
                   page1 == [page EXCEPT
                               !.keys = <<borrowed_key>> \o @,
                               !.values = <<left_sibling.values[
                                              Len(left_sibling.values)]>> \o @,
                               !.is_dirty = TRUE]
               IN Ok(write_page(write_page(write_page(s, left1), page1),
                                parent1), "Borrowed")
          ELSE IF Len(left_sibling.child_page_ids) = 0 THEN Err(s, "panic")
               ELSE
               LET borrowed_child == left_sibling.child_page_ids[
                                         Len(left_sibling.child_page_ids)]
                   left1 == [left_sibling EXCEPT
                               !.keys = SubSeq(@, 1, Len(@) - 1),
                               !.child_page_ids = SubSeq(@, 1, Len(@) - 1),
                               !.is_dirty = TRUE]
                   page1 == [page EXCEPT
                               !.keys = <<parent.keys[page_index]>> \o @,
                               !.child_page_ids = <<borrowed_child>> \o @,
                               !.is_dirty = TRUE]
               IN IF ~HasPage(s, borrowed_child) THEN Err(s, "IoError")
                  ELSE LET s1 == write_page(s, [s.pages[borrowed_child] EXCEPT
                                                 !.parent_page_id = page_id,
                                                 !.is_dirty = TRUE])
                       IN Ok(write_page(write_page(write_page(s1, left1),
                                                   page1), parent1),
                             "Borrowed")

try_borrow_from_right(s, page_id, right_sibling_id, parent_id, page_index) ==
    IF ~HasPage(s, right_sibling_id) \/ ~HasPage(s, page_id)
       \/ ~HasPage(s, parent_id)
    THEN Err(s, "IoError")
    ELSE
    LET right_sibling == s.pages[right_sibling_id]
        page == s.pages[page_id]
        parent == s.pages[parent_id]
    IN IF Len(right_sibling.keys) <= MIN_KEYS_PER_NODE
       THEN Err(s, "InvalidInput")
       ELSE IF page_index + 1 > Len(parent.keys) THEN Err(s, "panic")
       ELSE IF page.is_leaf
       THEN IF Len(right_sibling.values) = 0 THEN Err(s, "panic")
            ELSE
            LET right1 == [right_sibling EXCEPT !.keys = Tail(@),
                                                !.values = Tail(@),
                                                !.is_dirty = TRUE]
                page1 == [page EXCEPT
                            !.keys = Append(@, right_sibling.keys[1]),
                            !.values = Append(@, right_sibling.values[1]),
                            !.is_dirty = TRUE]
                parent1 == [parent EXCEPT
                              !.keys[page_index + 1] = right1.keys[1],
                              !.is_dirty = TRUE]
            IN Ok(write_page(write_page(write_page(s, right1), page1),
                             parent1), "Borrowed")
       ELSE IF Len(right_sibling.child_page_ids) = 0 THEN Err(s, "panic")
            ELSE
            LET borrowed_child == right_sibling.child_page_ids[1]
                right1 == [right_sibling EXCEPT !.keys = Tail(@),
                                                !.child_page_ids = Tail(@),
                                                !.is_dirty = TRUE]
                page1 == [page EXCEPT
                            !.keys = Append(@, parent.keys[page_index + 1]),
                            !.child_page_ids = Append(@, borrowed_child),
                            !.is_dirty = TRUE]
                parent1 == [parent EXCEPT
                              !.keys[page_index + 1] = right_sibling.keys[1],
                              !.is_dirty = TRUE]
            IN IF ~HasPage(s, borrowed_child) THEN Err(s, "IoError")
               ELSE LET s1 == write_page(s, [s.pages[borrowed_child] EXCEPT
                                              !.parent_page_id = page_id,
                                              !.is_dirty = TRUE])
                    IN Ok(write_page(write_page(write_page(s1, right1), page1),
                                     parent1), "Borrowed")

RECURSIVE handle_underflow(_, _, _)

\* what both merges do once the sibling and the parent are written: free the
\* merged page, then repair the parent or replace the root by `survivor`
AfterMerge(s, gone, parent, survivor, fuel) ==
    LET s1 == deallocate_page(s, gone.page_id)
        s2 == IF gone.is_leaf THEN unregister_leaf_page(s1, gone.page_id)
              ELSE s1
    IN IF Len(parent.keys) < MIN_KEYS_PER_NODE /\ parent.parent_page_id # None
       THEN handle_underflow(s2, parent.page_id, fuel - 1)
       ELSE IF Len(parent.keys) = 0 /\ parent.parent_page_id = None
       THEN Ok(write_page(s2, [survivor EXCEPT !.parent_page_id = None,
                                               !.is_dirty = TRUE]),
               survivor.page_id)
       ELSE Ok(s2, None)

merge_with_left_sibling(s, page_id, left_sibling_id, parent_id, page_index, fuel) ==
    IF ~HasPage(s, left_sibling_id) \/ ~HasPage(s, page_id)
       \/ ~HasPage(s, parent_id)
    THEN Err(s, "IoError")
    ELSE
    LET left_sibling == s.pages[left_sibling_id]
        page == s.pages[page_id]
        parent == s.pages[parent_id]
    IN IF page_index > Len(parent.keys) THEN Err(s, "panic")
       ELSE
       LET rp == IF page.is_leaf THEN Ok(s, None)
                 ELSE Reparent(s, page.child_page_ids, left_sibling_id)
           left1 == IF page.is_leaf
                    THEN [left_sibling EXCEPT
                            !.keys = @ \o page.keys,
                            !.values = @ \o page.values,
                            !.next_leaf_page_id = page.next_leaf_page_id,
                            !.is_dirty = TRUE]
                    ELSE [left_sibling EXCEPT
                            !.keys = @ \o <<parent.keys[page_index]>>
                                       \o page.keys,
                            !.child_page_ids = @ \o page.child_page_ids,
                            !.is_dirty = TRUE]
           parent1 == [parent EXCEPT
                         !.keys = RemoveAt(@, page_index - 1),
                         !.child_page_ids = RemoveAt(@, page_index),
                         !.is_dirty = TRUE]
       IN IF ~rp.ok THEN Err(rp.s, "IoError")
          ELSE AfterMerge(write_page(write_page(rp.s, left1), parent1),
                          page, parent1, left1, fuel)

merge_with_right_sibling(s, page_id, right_sibling_id, parent_id, page_index, fuel) ==
    IF ~HasPage(s, page_id) \/ ~HasPage(s, right_sibling_id)
       \/ ~HasPage(s, parent_id)
    THEN Err(s, "IoError")
    ELSE
    LET page == s.pages[page_id]
        right_sibling == s.pages[right_sibling_id]
        parent == s.pages[parent_id]
    IN IF page_index + 1 > Len(parent.keys) THEN Err(s, "panic")
       ELSE
       LET rp == IF page.is_leaf THEN Ok(s, None)
                 ELSE Reparent(s, right_sibling.child_page_ids, page_id)
           page1 == IF page.is_leaf
                    THEN [page EXCEPT
                            !.keys = @ \o right_sibling.keys,
                            !.values = @ \o right_sibling.values,
                            !.next_leaf_page_id =
                                right_sibling.next_leaf_page_id,
                            !.is_dirty = TRUE]
                    ELSE [page EXCEPT
                            !.keys = @ \o <<parent.keys[page_index + 1]>>
                                       \o right_sibling.keys,
                            !.child_page_ids =
                                @ \o right_sibling.child_page_ids,
                            !.is_dirty = TRUE]
           parent1 == [parent EXCEPT
                         !.keys = RemoveAt(@, page_index),
                         !.child_page_ids = RemoveAt(@, page_index + 1),
                         !.is_dirty = TRUE]
       IN IF ~rp.ok THEN Err(rp.s, "IoError")
          ELSE AfterMerge(write_page(write_page(rp.s, page1), parent1),
                          right_sibling, parent1, page1, fuel)

\* v is the new root id, or None
handle_underflow(s, page_id, fuel) ==
    IF fuel = 0 THEN Err(s, "panic")
    ELSE IF ~HasPage(s, page_id) THEN Err(s, "IoError")
    ELSE
    LET page == s.pages[page_id]
    IN IF page.parent_page_id = None
       THEN IF ~page.is_leaf /\ Len(page.keys) = 0
               /\ Len(page.child_page_ids) > 0
            THEN LET new_root_id == page.child_page_ids[1]
                 IN IF ~HasPage(s, new_root_id) THEN Err(s, "IoError")
                    ELSE Ok(write_page(s, [s.pages[new_root_id] EXCEPT
                                             !.parent_page_id = None,
                                             !.is_dirty = TRUE]),
                            new_root_id)
            ELSE Ok(s, None)
       ELSE
       LET parent_id == page.parent_page_id
       IN IF ~HasPage(s, parent_id) THEN Err(s, "IoError")
          ELSE
          LET parent == s.pages[parent_id]
              page_index == Position(parent.child_page_ids, page_id)
              nchildren == Len(parent.child_page_ids)
          IN IF page_index = -1 THEN Ok(s, None)
             ELSE
             Only({
                IF bl.ok THEN Ok(bl.s, None)
                ELSE IF bl.v = "panic" THEN bl
                ELSE IF br.ok THEN Ok(br.s, None)
                ELSE IF br.v = "panic" THEN br
                ELSE IF page_index > 0
                THEN merge_with_left_sibling(s, page_id,
                         parent.child_page_ids[page_index], parent_id,
                         page_index, fuel)
                ELSE IF page_index < nchildren - 1
                THEN merge_with_right_sibling(s, page_id,
                         parent.child_page_ids[page_index + 2], parent_id,
                         page_index, fuel)
                ELSE Ok(s, None) :
                bl \in {IF page_index > 0
                        THEN try_borrow_from_left(s, page_id,
                                 parent.child_page_ids[page_index],
                                 parent_id, page_index)
                        ELSE Err(s, "none")},
                br \in {IF page_index < nchildren - 1
                        THEN try_borrow_from_right(s, page_id,
                                 parent.child_page_ids[page_index + 2],
                                 parent_id, page_index)
                        ELSE Err(s, "none")}})

\* --------------------------------------------------------- predicate delete

\* compare_values on two Integer values, as an Ordering
compare_values(a, b) == IF a < b THEN "Less" ELSE IF a = b THEN "Equal" ELSE "Greater"

\* match_value_optimized: the column's index comes from
\* extract_predicate_column_indices; a column the schema does not have, or a
\* row that is too short, gives false
match_value_optimized(pred, row, ord) ==
    /\ pred.column <= Len(row.data)
    /\ compare_values(row.data[pred.column], pred.value) = ord

\* evaluate_predicate_optimized on the three comparisons the model offers
evaluate_predicate_optimized(pred, row) ==
    CASE pred.kind = "ColumnEquals" -> match_value_optimized(pred, row, "Equal")
      [] pred.kind = "ColumnGreaterThan" ->
            match_value_optimized(pred, row, "Greater")
      [] pred.kind = "ColumnLessThan" -> match_value_optimized(pred, row, "Less")

\* the loop of delete_by_predicate_with_tree_maintenance over the registry
\* snapshot; acc is [deleted_count, new_root_id]
RECURSIVE DeleteLoop(_, _, _, _)
DeleteLoop(s, leaf_page_ids, pred, acc) ==
    IF leaf_page_ids = <<>> THEN Ok(s, acc)
    ELSE
    LET leaf_id == Head(leaf_page_ids)
        rest == Tail(leaf_page_ids)
    IN IF ~HasPage(s, leaf_id) THEN DeleteLoop(s, rest, pred, acc)
       ELSE
       LET leaf_page == s.pages[leaf_id]
           rows_to_delete ==
               {i - 1 : i \in {j \in 1..Len(leaf_page.values) :
                    evaluate_predicate_optimized(pred, leaf_page.values[j])}}
       IN IF rows_to_delete = {} THEN DeleteLoop(s, rest, pred, acc)
          ELSE
          LET counted == [acc EXCEPT !.deleted_count =
                                        @ + Cardinality(rows_to_delete)]
          IN Only({
             IF ~d.ok THEN Err(d.s, d.v)
             ELSE IF d.v = "Underflow"
             THEN Only({IF ~h.ok THEN Err(h.s, h.v)
                        ELSE DeleteLoop(h.s, rest, pred,
                                 IF h.v # None
                                 THEN [counted EXCEPT !.new_root_id = h.v]
                                 ELSE counted) :
                        h \in {handle_underflow(d.s, leaf_id, Fuel)}})
             ELSE IF d.v = "RootDeleted"
             THEN DeleteLoop(d.s, rest, pred,
                             [counted EXCEPT !.new_root_id = None])
             ELSE DeleteLoop(d.s, rest, pred, counted) :
             d \in {delete_entries_from_leaf(s, leaf_id, rows_to_delete)}})

delete_by_predicate_with_tree_maintenance(s, pred) ==
    DeleteLoop(s, s.reg, pred, [deleted_count |-> 0, new_root_id |-> None])

\* Manager::truncate: the pool is cleared, the file is cut to length 0, the
\* counter is set to 1, an empty root leaf is written as page 1 and registered
truncate(s) ==
    LET s1 == [s EXCEPT !.pages = <<>>, !.next = 1]
        root_id == s1.next
    IN register_leaf_page(
           write_page(s1, Page(root_id, TRUE, None, <<>>, <<>>, <<>>, None)),
           root_id)

\* ------------------------------------------------ page file and buffer pool

PageIds == 1..NumPages

Readers == 1..NumReaders

Writer == NumReaders + 1

Threads == Readers \cup {Writer}

\* the tasks that call allocate_page
Allocators == 1..NumAllocators

\* the worker ids of a parallel scan
WorkerIds == 0..(max_workers - 1)

\* a worker that was not spawned, or whose scan is over
IdleWorker ==
    [pc |-> "idle", page_ids |-> <<>>, values |-> <<>>, result_rows |-> <<>>,
     pages_read |-> 0, total_scanned |-> 0, filtered_count |-> 0]

\* parallel_scan before it has joined a worker
IdleCollector ==
    [all_rows |-> <<>>, total_pages_read |-> 0, total_scanned |-> 0,
     total_filtered |-> 0, pending_tasks |-> 0]

\* Page::to_bytes: the header with the keys, then the values of a leaf or the
\* children of an internal page; is_dirty is not written
to_bytes(page) ==
    <<[part |-> "head", page_id |-> page.page_id, is_leaf |-> page.is_leaf,
       parent_page_id |-> page.parent_page_id,
       next_leaf_page_id |-> page.next_leaf_page_id, keys |-> page.keys],
      [part |-> "tail",
       items |-> IF page.is_leaf THEN page.values ELSE page.child_page_ids]>>

\* Page::from_bytes: bytes that do not start with the magic number are
\* CorruptedData; a decoded page is clean
from_bytes(bytes) ==
    IF bytes[1].part # "head" \/ bytes[2].part # "tail"
    THEN [ok |-> FALSE, v |-> "CorruptedData"]
    ELSE [ok |-> TRUE,
          v |-> [Page(bytes[1].page_id, bytes[1].is_leaf,
                      bytes[1].parent_page_id, bytes[1].keys,
                      IF bytes[1].is_leaf THEN bytes[2].items ELSE <<>>,
                      IF bytes[1].is_leaf THEN <<>> ELSE bytes[2].items,
                      bytes[1].next_leaf_page_id)
                 EXCEPT !.is_dirty = FALSE]]

\* the byte offset page_id * PAGE_SIZE, in half pages
Offset(page_id) == 2 * page_id

\* the page the writer hands to its v-th write_page of page_id; version 0 is
\* the page the file held when the manager opened it
VersionPage(page_id, v) ==
    Page(page_id, TRUE, None, IF v = 0 THEN <<>> ELSE <<v>>,
         IF v = 0 THEN <<>> ELSE <<Row(v)>>, <<>>, None)

\* the pool as one value
Pool == [cache |-> cache, lru |-> lru, head |-> head, tail |-> tail,
         dirty |-> dirty_pages, max_pages |-> buffer_size]

\* HashMap::remove
Without(f, id) ==
    IF DOMAIN f \ {id} = {} THEN <<>> ELSE [i \in DOMAIN f \ {id} |-> f[i]]

\* Pool::move_to_front of a cached id; cache.get_mut of an id that is not in
\* the map changes nothing
move_to_front(p, page_id) ==
    IF p.head = page_id THEN p
    ELSE
    LET prev_id == p.lru[page_id].prev
        next_id == p.lru[page_id].next
        l1 == IF prev_id # None /\ prev_id \in DOMAIN p.lru
              THEN [p.lru EXCEPT ![prev_id].next = next_id] ELSE p.lru
        l2 == IF next_id # None /\ next_id \in DOMAIN l1
              THEN [l1 EXCEPT ![next_id].prev = prev_id] ELSE l1
        l3 == [l2 EXCEPT ![page_id] = [prev |-> None, next |-> p.head]]
    IN [p EXCEPT !.lru = IF p.head # None /\ p.head \in DOMAIN l3
                         THEN [l3 EXCEPT ![p.head].prev = page_id] ELSE l3,
                 !.head = page_id,
                 !.tail = IF next_id = None THEN prev_id ELSE @]

\* Pool::evict_lru: with a tail that is cached it locks `tail` a second time
\* while the guard of its `if let` is alive, and a second lock of a std Mutex
\* by its holder never returns (it blocks or panics); with no tail, or a tail
\* that is not in the map, it removes nothing
evict_lru(p) ==
    [p |-> p, blocked |-> p.tail # None /\ p.tail \in DOMAIN p.cache]

\* Pool::put_page under the cache mutex: an id already cached gets the new
\* page and moves to the front; a new id goes through evict_lru when the map
\* holds max_pages entries or more, and is linked in as the head
put_page(p, page_id, page) ==
    IF page_id \in DOMAIN p.cache
    THEN [p |-> [move_to_front([p EXCEPT !.cache[page_id] = page], page_id)
                   EXCEPT !.dirty = IF page.is_dirty THEN @ \cup {page_id}
                                    ELSE @],
          blocked |-> FALSE]
    ELSE IF Cardinality(DOMAIN p.cache) >= p.max_pages /\ evict_lru(p).blocked
    THEN [p |-> p, blocked |-> TRUE]
    ELSE [p |-> [p EXCEPT
                   !.cache = (page_id :> page) @@ @,
                   !.lru = (page_id :> [prev |-> None, next |-> p.head])
                           @@ (IF p.head # None /\ p.head \in DOMAIN p.lru
                               THEN [p.lru EXCEPT ![p.head].prev = page_id]
                               ELSE p.lru),
                   !.head = page_id,
                   !.tail = IF p.head = None THEN page_id ELSE @,
                   !.dirty = IF page.is_dirty THEN @ \cup {page_id} ELSE @],
          blocked |-> FALSE]

\* Pool::get_page: a hit moves the id to the front; v is the page, or None
get_page(p, page_id) ==
    IF page_id \in DOMAIN p.cache
    THEN [p |-> move_to_front(p, page_id), v |-> p.cache[page_id]]
    ELSE [p |-> p, v |-> None]

\* Pool::mark_dirty
mark_dirty(p, page_id) == [p EXCEPT !.dirty = @ \cup {page_id}]

\* Pool::clear_dirty
clear_dirty(p, page_id) == [p EXCEPT !.dirty = @ \ {page_id}]

\* Pool::clear_all empties the two maps; head and tail keep their ids
clear_all(p) == [p EXCEPT !.cache = <<>>, !.lru = <<>>, !.dirty = {}]

\* a removal that takes the id out of the dirty set as well
remove_page_and_dirty(p, page_id) ==
    [p EXCEPT !.cache = Without(@, page_id), !.lru = Without(@, page_id),
              !.dirty = @ \ {page_id}]

\* Pool::remove_page takes the node out of the map only
remove_page(p, page_id) ==
    [p EXCEPT !.cache = Without(@, page_id), !.lru = Without(@, page_id)]

\* the pool after the operation that left it as q
SetPool(q) ==
    /\ cache' = q.cache
    /\ lru' = q.lru
    /\ head' = q.head
    /\ tail' = q.tail
    /\ dirty_pages' = q.dirty
    /\ buffer_size' = q.max_pages

\* the ghost order after a get_page hit or a put_page of id
Touched(id) == <<id>> \o SelectSeq(recency, LAMBDA x : x # id)

\* a file handle shared without a mutex
FileLockIgnored == TRUE

\* Manager.file is a Mutex: lock() goes through only while nobody holds it
FileLockFree == file_lock = None

\* the manager right after Manager::new opened a file that holds the pages
\* 1..NumPages: nothing cached, nobody reading or writing
IdleIO ==
    /\ file = [o \in 0..(Offset(NumPages) + 1) |->
                 IF o < Offset(1) THEN [part |-> "zero"]
                 ELSE to_bytes(VersionPage(o \div 2, 0))[(o % 2) + 1]]
    /\ cursor = 0
    /\ file_lock = None
    /\ cache = <<>>
    /\ lru = <<>>
    /\ head = None
    /\ tail = None
    /\ dirty_pages = {}
    /\ recency = <<>>
    /\ cache_stuck = FALSE
    /\ pc = [t \in Threads |-> "idle"]
    /\ arg = [t \in Threads |-> None]
    /\ buf = [t \in Readers |-> [ok |-> FALSE, v |-> "none"]]
    /\ started = [id \in PageIds |-> 0]
    /\ committed = [id \in PageIds |-> 0]
    /\ lo = [t \in Readers |-> 0]

\* no allocate_page and no truncate under way
\* no sequential scan in progress
IdleSequential ==
    [pc |-> "idle", current_leaf_id |-> None, faults |-> <<>>, requests |-> 0,
     result |-> None]

IdleTasks ==
    /\ next_id_lock = None
    /\ apc = [t \in Allocators |-> "idle"]
    /\ held_id = [t \in Allocators |-> None]
    /\ returned = <<>>
    /\ all_returned = <<>>
    /\ tpc = "idle"
    /\ truncated = 0
    /\ options = <<>>
    /\ workers = [w \in WorkerIds |-> IdleWorker]
    /\ total_rows_found = 0
    /\ should_stop = FALSE
    /\ completed = <<>>
    /\ collector = IdleCollector
    /\ registry_file = [count |-> 0, ids |-> <<>>]
    /\ registered = <<>>
    /\ sequential = IdleSequential

\* ------------------------------------------------------------------ actions

\* main.rs: the caller allocates page 1, writes it as an empty root leaf and
\* registers it
Init ==
    /\ pages = (1 :> Page(1, TRUE, None, <<>>, <<>>, <<>>, None))
    /\ leaf_registry = <<1>>
    /\ next_page_id = 2
    /\ root_page_id = 1
    /\ expected = {}
    /\ perm = TRUE
    /\ last = [op |-> "init", key |-> 0, ok |-> TRUE, res |-> None]
    /\ IdleIO
    /\ IdleTasks
    /\ buffer_size = max_pages

\* one InsertOperation::execute; the caller replaces its root id exactly when
\* Some(new_root_id) comes back
Insert(k) ==
    /\ next_page_id <= MaxPageId
    /\ \E r \in {execute(Store, Row(k), root_page_id)} :
          /\ pages' = r.s.pages
          /\ leaf_registry' = r.s.reg
          /\ next_page_id' = r.s.next
          /\ root_page_id' = IF r.ok /\ r.v # None THEN r.v ELSE root_page_id
          /\ expected' = IF r.ok THEN expected \cup {k} ELSE expected
          /\ perm' = (perm /\ r.ok /\ k \notin expected)
          /\ last' = [op |-> "insert", key |-> k, ok |-> r.ok, res |-> r.v]
          /\ UNCHANGED ioVars
          /\ UNCHANGED taskVars

\* single-row delete by primary key: descend, delete_from_leaf, and
\* handle_underflow when Underflow is reported
DeleteKey(k) ==
    \E f \in {IF HasPage(Store, root_page_id)
               THEN find_leaf_for_key(Store, k, pages[root_page_id], Fuel)
               ELSE Err(Store, "IoError")} :
    \E d \in {IF f.ok THEN delete_from_leaf(Store, f.v, k) ELSE f} :
    \E r \in {IF d.ok /\ d.v = "Underflow"
               THEN handle_underflow(d.s, f.v, Fuel)
               ELSE IF d.ok THEN Ok(d.s, None) ELSE d} :
       /\ pages' = r.s.pages
       /\ leaf_registry' = r.s.reg
       /\ next_page_id' = r.s.next
       /\ root_page_id' = IF r.ok /\ r.v # None THEN r.v ELSE root_page_id
       /\ expected' = IF r.ok THEN expected \ {k} ELSE expected
       /\ perm' = FALSE
       /\ last' = [op |-> "delete_key", key |-> k, ok |-> r.ok, res |-> r.v]
       /\ UNCHANGED ioVars
       /\ UNCHANGED taskVars

\* the keys the operations on the loaded table name
TreeKeys == GapFirst..GapLast

\* the predicates offered to the bulk delete, over the one column of a row
Predicates ==
    [kind : {"ColumnEquals", "ColumnGreaterThan", "ColumnLessThan"},
     column : {1}, value : TreeKeys]

\* DeleteOperation::execute with DeleteType::ByPredicate; the caller replaces
\* its root id exactly when new_root_id is Some
Delete(pred) ==
    \E r \in {delete_by_predicate_with_tree_maintenance(Store, pred)} :
       /\ pages' = r.s.pages
       /\ leaf_registry' = r.s.reg
       /\ next_page_id' = r.s.next
       /\ root_page_id' = IF r.ok /\ r.v.new_root_id # None
                          THEN r.v.new_root_id ELSE root_page_id
       /\ expected' = IF r.ok
                      THEN {k \in expected :
                               ~evaluate_predicate_optimized(pred, Row(k))}
                      ELSE expected
       /\ perm' = FALSE
       /\ last' = [op |-> "delete", key |-> pred, ok |-> r.ok, res |-> r.v]
       /\ UNCHANGED ioVars
       /\ UNCHANGED taskVars

\* DeleteOperation::execute with DeleteType::Truncate; the caller goes on
\* with the page truncate wrote as its root
Truncate ==
    LET s == truncate(Store)
    IN /\ Len(leaf_registry) < MaxRegistry
       /\ pages' = s.pages
       /\ leaf_registry' = s.reg
       /\ next_page_id' = s.next
       /\ root_page_id' = 1
       /\ expected' = {}
       /\ perm' = FALSE
       /\ last' = [op |-> "truncate", key |-> 0, ok |-> TRUE, res |-> None]
       /\ UNCHANGED ioVars
       /\ UNCHANGED taskVars

\* the rows of the load, ascending
LoadRows == [i \in 1..(LoadKeys - Cardinality(TreeKeys)) |->
               Row(IF i < GapFirst THEN i ELSE i + Cardinality(TreeKeys))]

\* the table after main.rs created it and one execute_batch loaded LoadRows
InitLoaded ==
    LET s0 == [pages |-> (1 :> Page(1, TRUE, None, <<>>, <<>>, <<>>, None)),
               reg |-> <<1>>, next |-> 2]
    IN \E b \in {execute_batch(s0, LoadRows, 1, None)} :
       /\ pages = b.s.pages
       /\ leaf_registry = b.s.reg
       /\ next_page_id = b.s.next
       /\ root_page_id = IF b.ok /\ b.v # None THEN b.v ELSE 1
       /\ expected = {LoadRows[i].id : i \in 1..Len(LoadRows)}
       /\ perm = FALSE
       /\ last = [op |-> "init", key |-> 0, ok |-> b.ok, res |-> b.v]
       /\ IdleIO
       /\ IdleTasks
       /\ buffer_size = max_pages
    /\ IdleTasks

NextTree ==
    \/ \E k \in TreeKeys : Insert(k)
    \/ \E k \in TreeKeys : DeleteKey(k)
    \/ \E pred \in Predicates : Delete(pred)
    \/ Truncate

SpecTree == InitLoaded /\ [][NextTree]_vars

NextInsert == \E k \in 1..MaxKey : Insert(k)

SpecInsert == Init /\ [][NextInsert]_vars

\* ------------------------------------- read_page and write_page, step by step

\* a reader calls read_page(id): buffer_pool.get_page returns a cached page
\* at once, a miss sends the reader to the file
PoolGet(t, id) ==
    /\ pc[t] = "idle"
    /\ ~cache_stuck
    /\ arg' = [arg EXCEPT ![t] = id]
    /\ lo' = [lo EXCEPT ![t] = committed[id]]
    /\ IF id \in DOMAIN cache
       THEN /\ buf' = [buf EXCEPT ![t] =
                         [ok |-> TRUE, v |-> get_page(Pool, id).v]]
            /\ pc' = [pc EXCEPT ![t] = "done"]
            /\ recency' = Touched(id)
       ELSE /\ pc' = [pc EXCEPT ![t] = "lock"]
            /\ UNCHANGED <<buf, recency>>
    /\ SetPool(get_page(Pool, id).p)
    /\ UNCHANGED treeVars
    /\ UNCHANGED taskVars
    /\ UNCHANGED <<file, cursor, file_lock, cache_stuck, started, committed>>

\* self.file.lock() of read_page, and the seek to the page
ReadLock(t) ==
    /\ pc[t] = "lock"
    /\ FileLockFree
    /\ file_lock' = t
    /\ cursor' = Offset(arg[t])
    /\ pc' = [pc EXCEPT ![t] = "read"]
    /\ UNCHANGED treeVars
    /\ UNCHANGED taskVars
    /\ UNCHANGED lruVars
    /\ UNCHANGED <<file, cache, dirty_pages, cache_stuck, arg, buf, started,
                   committed, lo>>

\* what read_exact and Page::from_bytes make of the page at the cursor
ReadAtCursor ==
    IF cursor + 1 \in DOMAIN file
    THEN from_bytes(<<file[cursor], file[cursor + 1]>>)
    ELSE [ok |-> FALSE, v |-> "IoError"]

\* a read_page that drops the file lock once the bytes are read, before it
\* caches the page
ReadExactUnlocks(t) ==
    /\ pc[t] = "read"
    /\ buf' = [buf EXCEPT ![t] = ReadAtCursor]
    /\ pc' = [pc EXCEPT ![t] = IF ReadAtCursor.ok THEN "put" ELSE "done"]
    /\ cursor' = cursor + 2
    /\ file_lock' = IF file_lock = t THEN None ELSE file_lock
    /\ UNCHANGED treeVars
    /\ UNCHANGED taskVars
    /\ UNCHANGED lruVars
    /\ UNCHANGED <<file, cache, dirty_pages, cache_stuck, arg, started,
                   committed, lo>>

\* read_exact of one page at the cursor, then Page::from_bytes; an error
\* leaves read_page through `?`, which drops the guard of the file lock
ReadExact(t) ==
    /\ pc[t] = "read"
    /\ buf' = [buf EXCEPT ![t] = ReadAtCursor]
    /\ pc' = [pc EXCEPT ![t] = IF ReadAtCursor.ok THEN "put" ELSE "done"]
    /\ cursor' = cursor + 2
    /\ file_lock' = IF ReadAtCursor.ok \/ file_lock # t THEN file_lock
                    ELSE None
    /\ UNCHANGED treeVars
    /\ UNCHANGED taskVars
    /\ UNCHANGED lruVars
    /\ UNCHANGED <<file, cache, dirty_pages, cache_stuck, arg, started,
                   committed, lo>>

\* buffer_pool.put_page of the page read, the file still locked; then
\* read_page returns and the guard of the file lock is dropped
ReadPut(t) ==
    /\ pc[t] = "put"
    /\ ~cache_stuck
    /\ LET p == put_page(Pool, arg[t], buf[t].v)
       IN /\ SetPool(p.p)
          /\ recency' = IF p.blocked THEN recency ELSE Touched(arg[t])
          /\ cache_stuck' = p.blocked
          /\ pc' = [pc EXCEPT ![t] = IF p.blocked THEN "blocked" ELSE "done"]
          /\ file_lock' = IF p.blocked \/ file_lock # t THEN file_lock
                          ELSE None
    /\ UNCHANGED treeVars
    /\ UNCHANGED taskVars
    /\ UNCHANGED <<file, cursor, arg, buf, started, committed, lo>>

\* the caller has its answer and may read again
ReadDone(t) ==
    /\ pc[t] = "done"
    /\ pc' = [pc EXCEPT ![t] = "idle"]
    /\ arg' = [arg EXCEPT ![t] = None]
    /\ buf' = [buf EXCEPT ![t] = [ok |-> FALSE, v |-> "none"]]
    /\ lo' = [lo EXCEPT ![t] = 0]
    /\ UNCHANGED treeVars
    /\ UNCHANGED taskVars
    /\ UNCHANGED lruVars
    /\ UNCHANGED <<file, cursor, file_lock, cache, dirty_pages, cache_stuck,
                   started, committed>>

\* write_page calls begun so far, over the page ids of S
RECURSIVE Writes(_)
Writes(S) ==
    IF S = {} THEN 0 ELSE started[Min(S)] + Writes(S \ {Min(S)})

\* the page write_page was called with
Written == VersionPage(arg[Writer], started[arg[Writer]])

\* the writer calls write_page with the next version of page id:
\* self.file.lock(), and the seek to the page
WriteLock(id) ==
    /\ pc[Writer] = "idle"
    /\ Writes(PageIds) < MaxWrites
    /\ FileLockFree
    /\ file_lock' = Writer
    /\ cursor' = Offset(id)
    /\ started' = [started EXCEPT ![id] = @ + 1]
    /\ arg' = [arg EXCEPT ![Writer] = id]
    /\ pc' = [pc EXCEPT ![Writer] = "w_head"]
    /\ UNCHANGED treeVars
    /\ UNCHANGED taskVars
    /\ UNCHANGED lruVars
    /\ UNCHANGED <<file, cache, dirty_pages, cache_stuck, buf, committed, lo>>

\* write_all puts the bytes down in as many write calls as the file takes:
\* here the first of two
WriteHead ==
    /\ pc[Writer] = "w_head"
    /\ file' = (cursor :> to_bytes(Written)[1]) @@ file
    /\ cursor' = cursor + 1
    /\ pc' = [pc EXCEPT ![Writer] = "w_tail"]
    /\ UNCHANGED treeVars
    /\ UNCHANGED taskVars
    /\ UNCHANGED lruVars
    /\ UNCHANGED <<file_lock, cache, dirty_pages, cache_stuck, arg, buf,
                   started, committed, lo>>

\* the rest of write_all, and sync_all
WriteTail ==
    /\ pc[Writer] = "w_tail"
    /\ file' = (cursor :> to_bytes(Written)[2]) @@ file
    /\ cursor' = cursor + 1
    /\ pc' = [pc EXCEPT ![Writer] = "w_put"]
    /\ UNCHANGED treeVars
    /\ UNCHANGED taskVars
    /\ UNCHANGED lruVars
    /\ UNCHANGED <<file_lock, cache, dirty_pages, cache_stuck, arg, buf,
                   started, committed, lo>>

\* buffer_pool.put_page of a clone of the page written
WritePut ==
    /\ pc[Writer] = "w_put"
    /\ ~cache_stuck
    /\ LET p == put_page(Pool, arg[Writer], Written)
       IN /\ SetPool(p.p)
          /\ recency' = IF p.blocked THEN recency ELSE Touched(arg[Writer])
          /\ cache_stuck' = p.blocked
          /\ pc' = [pc EXCEPT ![Writer] =
                       IF p.blocked THEN "blocked" ELSE "w_ret"]
    /\ UNCHANGED treeVars
    /\ UNCHANGED taskVars
    /\ UNCHANGED <<file, cursor, file_lock, arg, buf, started, committed, lo>>

\* buffer_pool.clear_dirty; then write_page returns and the guard of the file
\* lock is dropped
WriteReturn ==
    /\ pc[Writer] = "w_ret"
    /\ dirty_pages' = clear_dirty(Pool, arg[Writer]).dirty
    /\ file_lock' = IF file_lock = Writer THEN None ELSE file_lock
    /\ committed' = [committed EXCEPT ![arg[Writer]] = started[arg[Writer]]]
    /\ pc' = [pc EXCEPT ![Writer] = "idle"]
    /\ arg' = [arg EXCEPT ![Writer] = None]
    /\ UNCHANGED treeVars
    /\ UNCHANGED taskVars
    /\ UNCHANGED lruVars
    /\ UNCHANGED <<file, cursor, cache, cache_stuck, buf, started, lo>>

NextIO ==
    \/ \E t \in Readers, id \in PageIds : PoolGet(t, id)
    \/ \E t \in Readers : ReadLock(t)
    \/ \E t \in Readers : ReadExact(t)
    \/ \E t \in Readers : ReadPut(t)
    \/ \E t \in Readers : ReadDone(t)
    \/ \E id \in PageIds : WriteLock(id)
    \/ WriteHead
    \/ WriteTail
    \/ WritePut
    \/ WriteReturn

SpecIO == Init /\ [][NextIO]_vars

\* ------------------------------------------------ the buffer pool on its own

PoolIds == 1..MaxPoolId

\* Pool::get_page(id)
GetPage(id) ==
    /\ ~cache_stuck
    /\ SetPool(get_page(Pool, id).p)
    /\ recency' = IF id \in DOMAIN cache THEN Touched(id) ELSE recency
    /\ last' = [op |-> "get_page", key |-> id, ok |-> TRUE,
                res |-> get_page(Pool, id).v]
    /\ UNCHANGED <<tableVars, fileVars, taskVars, cache_stuck>>

\* Pool::put_page(id, page) with a clean or a dirty page; a call that does
\* not come back leaves the cache mutex taken
PutPage(id, is_dirty) ==
    /\ ~cache_stuck
    /\ \E p \in {put_page(Pool, id,
                           [VersionPage(id, 0) EXCEPT !.is_dirty = is_dirty])} :
          /\ SetPool(p.p)
          /\ recency' = IF p.blocked THEN recency ELSE Touched(id)
          /\ cache_stuck' = p.blocked
          /\ last' = [op |-> "put_page", key |-> id, ok |-> ~p.blocked,
                      res |-> None]
    /\ UNCHANGED <<tableVars, fileVars, taskVars>>

\* Pool::mark_dirty(id, page) takes the dirty mutex only
MarkDirty(id) ==
    /\ SetPool(mark_dirty(Pool, id))
    /\ last' = [op |-> "mark_dirty", key |-> id, ok |-> TRUE, res |-> None]
    /\ UNCHANGED <<tableVars, fileVars, taskVars, cache_stuck, recency>>

\* Pool::clear_dirty(id) takes the dirty mutex only
ClearDirty(id) ==
    /\ SetPool(clear_dirty(Pool, id))
    /\ last' = [op |-> "clear_dirty", key |-> id, ok |-> TRUE, res |-> None]
    /\ UNCHANGED <<tableVars, fileVars, taskVars, cache_stuck, recency>>

\* Pool::clear_all
ClearAll ==
    /\ ~cache_stuck
    /\ SetPool(clear_all(Pool))
    /\ last' = [op |-> "clear_all", key |-> 0, ok |-> TRUE, res |-> None]
    /\ UNCHANGED <<tableVars, fileVars, taskVars, cache_stuck, recency>>

\* Pool::remove_page(id)
RemovePage(id) ==
    /\ ~cache_stuck
    /\ SetPool(remove_page(Pool, id))
    /\ last' = [op |-> "remove_page", key |-> id, ok |-> TRUE, res |-> None]
    /\ UNCHANGED <<tableVars, fileVars, taskVars, cache_stuck, recency>>

\* Pool::evict_oldest removes the first key the HashMap iterator yields,
\* which may be any key of the map
EvictOldest ==
    /\ ~cache_stuck
    /\ IF DOMAIN cache = {}
       THEN /\ SetPool(Pool)
            /\ last' = [op |-> "evict_oldest", key |-> 0, ok |-> TRUE,
                        res |-> None]
       ELSE \E first_key \in DOMAIN cache :
               /\ SetPool(remove_page(Pool, first_key))
               /\ last' = [op |-> "evict_oldest", key |-> first_key,
                           ok |-> TRUE, res |-> None]
    /\ UNCHANGED <<tableVars, fileVars, taskVars, cache_stuck, recency>>

NextPool ==
    \/ \E id \in PoolIds : GetPage(id)
    \/ \E id \in PoolIds, is_dirty \in BOOLEAN : PutPage(id, is_dirty)
    \/ \E id \in PoolIds : MarkDirty(id)
    \/ \E id \in PoolIds : ClearDirty(id)
    \/ ClearAll
    \/ \E id \in PoolIds : RemovePage(id)
    \/ EvictOldest

SpecPool == Init /\ [][NextPool]_vars

\* ------------------------------------------------------ the manager's tasks

\* a next_page_id that is not behind a mutex: the load and the increment of
\* two calls may interleave
NextIdLockIgnored == TRUE

\* Manager.next_page_id is a Mutex: lock() goes through only while nobody
\* holds it
NextIdLockFree == next_id_lock = None

\* a write of b at the half-page offset o; the bytes between the old end of
\* the file and o read as zeros
WriteAt(f, o, b) ==
    [x \in 0..(IF DOMAIN f = {} \/ o >= Cardinality(DOMAIN f)
               THEN o ELSE Cardinality(DOMAIN f) - 1) |->
        IF x = o THEN b ELSE IF x \in DOMAIN f THEN f[x]
        ELSE [part |-> "zero"]]

\* Manager::new on paths that hold no file yet: an empty data file, an empty
\* registry, the counter at 1
InitManager ==
    /\ pages = <<>>
    /\ leaf_registry = <<>>
    /\ next_page_id = 1
    /\ root_page_id = None
    /\ expected = {}
    /\ perm = TRUE
    /\ last = [op |-> "init", key |-> 0, ok |-> TRUE, res |-> None]
    /\ file = <<>>
    /\ cursor = 0
    /\ file_lock = None
    /\ cache = <<>>
    /\ lru = <<>>
    /\ head = None
    /\ tail = None
    /\ buffer_size = max_pages
    /\ dirty_pages = {}
    /\ recency = <<>>
    /\ cache_stuck = FALSE
    /\ pc = [t \in Threads |-> "idle"]
    /\ arg = [t \in Threads |-> None]
    /\ buf = [t \in Readers |-> [ok |-> FALSE, v |-> "none"]]
    /\ started = [id \in PageIds |-> 0]
    /\ committed = [id \in PageIds |-> 0]
    /\ lo = [t \in Readers |-> 0]
    /\ IdleTasks

\* the frame of the actions of this section
quietVars == <<pages, root_page_id, expected, perm, cursor, pc, arg, buf,
               committed, lo>>

\* allocate_page: self.next_page_id.lock(), and let page_id = *next_id
AllocLock(t) ==
    /\ apc[t] = "idle"
    /\ Len(all_returned) + Cardinality({u \in Allocators : apc[u] # "idle"})
          < MaxAllocs
    /\ NextIdLockFree
    /\ next_id_lock' = t
    /\ held_id' = [held_id EXCEPT ![t] = next_page_id]
    /\ apc' = [apc EXCEPT ![t] = "locked"]
    /\ UNCHANGED <<quietVars, leaf_registry, next_page_id, last, file,
                   file_lock, cache, lruVars, dirty_pages, cache_stuck,
                   started, returned, all_returned, tpc, truncated, scanVars,
                   regVars, sequential>>

\* allocate_page: *next_id += 1, the guard is dropped and page_id returned
AllocReturn(t) ==
    /\ apc[t] = "locked"
    /\ next_page_id' = next_page_id + 1
    /\ next_id_lock' = IF next_id_lock = t THEN None ELSE next_id_lock
    /\ returned' = Append(returned, held_id[t])
    /\ all_returned' = Append(all_returned, held_id[t])
    /\ apc' = [apc EXCEPT ![t] = "idle"]
    /\ last' = [op |-> "allocate_page", key |-> t, ok |-> TRUE,
                res |-> held_id[t]]
    /\ UNCHANGED <<quietVars, leaf_registry, file, file_lock, cache, lruVars,
                   dirty_pages, cache_stuck, started, held_id, tpc, truncated,
                   scanVars, regVars, sequential>>

\* one whole Manager::write_page of the next version of page id, by the
\* caller of the table's operations
ManagerWrite(id) ==
    /\ tpc = "idle"
    /\ Writes(PageIds) < MaxManagerWrites
    /\ FileLockFree
    /\ ~cache_stuck
    /\ started' = [started EXCEPT ![id] = @ + 1]
    /\ \E node \in {VersionPage(id, started[id] + 1)} :
       \E p \in {put_page(Pool, id, node)} :
          /\ file' = WriteAt(WriteAt(file, Offset(id), to_bytes(node)[1]),
                             Offset(id) + 1, to_bytes(node)[2])
          /\ SetPool(IF p.blocked THEN p.p ELSE clear_dirty(p.p, id))
          /\ recency' = IF p.blocked THEN recency ELSE Touched(id)
          /\ cache_stuck' = p.blocked
          /\ file_lock' = IF p.blocked THEN Writer ELSE None
          /\ last' = [op |-> "write_page", key |-> id, ok |-> ~p.blocked,
                      res |-> None]
    /\ UNCHANGED <<quietVars, leaf_registry, next_page_id, taskVars>>

\* Manager::register_leaf_page(id), by the same caller
RegisterLeaf(id) ==
    /\ tpc = "idle"
    /\ Len(leaf_registry) < MaxRegistered
    /\ leaf_registry' = Append(leaf_registry, id)
    /\ last' = [op |-> "register_leaf_page", key |-> id, ok |-> TRUE,
                res |-> None]
    /\ UNCHANGED <<quietVars, next_page_id, file, file_lock, cache, lruVars,
                   dirty_pages, cache_stuck, started, taskVars>>

\* truncate, first half: buffer_pool.clear_all(), the counter is set to 1
\* under its mutex, and the file is cut to length 0 under its mutex
TruncateReset ==
    /\ tpc = "idle"
    /\ truncated < MaxTruncates
    /\ ~cache_stuck
    /\ NextIdLockFree
    /\ FileLockFree
    /\ SetPool(clear_all(Pool))
    /\ next_page_id' = 1
    /\ returned' = <<>>
    /\ file' = <<>>
    /\ tpc' = "root"
    /\ truncated' = truncated + 1
    /\ last' = [op |-> "clear_all", key |-> 0, ok |-> TRUE, res |-> None]
    /\ UNCHANGED <<quietVars, leaf_registry, file_lock, recency, cache_stuck,
                   started, next_id_lock, apc, held_id, all_returned,
                   scanVars, regVars, sequential>>

\* truncate, second half: root_page_id is read from the counter under its
\* mutex, the empty root leaf is written with write_page and registered
TruncateRoot ==
    /\ tpc = "root"
    /\ NextIdLockFree
    /\ FileLockFree
    /\ ~cache_stuck
    /\ \E root_node \in {[Page(next_page_id, TRUE, None, <<>>, <<>>, <<>>,
                               None) EXCEPT !.is_dirty = TRUE]} :
       \E p \in {put_page(Pool, root_node.page_id, root_node)} :
          /\ file' = WriteAt(WriteAt(file, Offset(root_node.page_id),
                                     to_bytes(root_node)[1]),
                             Offset(root_node.page_id) + 1,
                             to_bytes(root_node)[2])
          /\ SetPool(IF p.blocked THEN p.p
                     ELSE clear_dirty(p.p, root_node.page_id))
          /\ recency' = IF p.blocked THEN recency
                        ELSE Touched(root_node.page_id)
          /\ cache_stuck' = p.blocked
          /\ file_lock' = IF p.blocked THEN Writer ELSE None
          /\ leaf_registry' = IF p.blocked THEN leaf_registry
                              ELSE Append(leaf_registry, root_node.page_id)
          /\ tpc' = IF p.blocked THEN "blocked" ELSE "idle"
          /\ last' = [op |-> "truncate", key |-> root_node.page_id,
                      ok |-> ~p.blocked, res |-> None]
    /\ UNCHANGED <<quietVars, next_page_id, started, next_id_lock, apc,
                   held_id, returned, all_returned, truncated, scanVars,
                   regVars, sequential>>

NextManager ==
    \/ \E t \in Allocators : AllocLock(t)
    \/ \E t \in Allocators : AllocReturn(t)
    \/ \E id \in PageIds : ManagerWrite(id)
    \/ \E id \in PageIds : RegisterLeaf(id)
    \/ TruncateReset
    \/ TruncateRoot

SpecManager == InitManager /\ [][NextManager]_vars

\* ---------------------------------------------------------- batched reads

\* the ghost order rec after a get_page hit or a put_page of id
TouchedIn(rec, id) == <<id>> \o SelectSeq(rec, LAMBDA x : x # id)

\* the pool with its ghost order
PoolWithRecency == [recency |-> recency] @@ Pool

\* Pool::get_page(id), the ghost order kept
Got(p, id) ==
    IF id \in DOMAIN p.cache
    THEN [get_page(p, id).p EXCEPT !.recency = TouchedIn(@, id)]
    ELSE p

\* uncached_ids.sort_unstable()
RECURSIVE sort_unstable(_)
sort_unstable(seq) ==
    IF seq = <<>> THEN <<>>
    ELSE <<Min(Range(seq))>>
         \o sort_unstable(RemoveAt(seq, Position(seq, Min(Range(seq)))))

\* read_pages_batch, first loop: the cached pages in the order of the ids,
\* and the ids that missed
RECURSIVE CheckCache(_, _, _)
CheckCache(acc, page_ids, i) ==
    IF i > Len(page_ids) THEN acc
    ELSE CheckCache(
             IF page_ids[i] \in DOMAIN acc.p.cache
             THEN [acc EXCEPT !.p = Got(@, page_ids[i]),
                              !.pages = Append(@, acc.p.cache[page_ids[i]])]
             ELSE [acc EXCEPT !.uncached_ids = Append(@, page_ids[i])],
             page_ids, i + 1)

\* read_pages_batch, second loop, under the file mutex: seek, read_exact,
\* from_bytes and put_page for each sorted id that missed; `?` returns the
\* first error, and a put_page that needs an eviction does not come back
RECURSIVE ReadUncached(_, _, _, _)
ReadUncached(p, f, uncached_ids, uncached_pages) ==
    IF uncached_ids = <<>>
    THEN [ok |-> TRUE, blocked |-> FALSE, p |-> p, v |-> uncached_pages]
    ELSE IF Offset(Head(uncached_ids)) + 1 \notin DOMAIN f
    THEN [ok |-> FALSE, blocked |-> FALSE, p |-> p, v |-> "IoError"]
    ELSE Only({
        IF ~page.ok
        THEN [ok |-> FALSE, blocked |-> FALSE, p |-> p, v |-> page.v]
        ELSE Only({
            IF q.blocked
            THEN [ok |-> FALSE, blocked |-> TRUE, p |-> p, v |-> "blocked"]
            ELSE ReadUncached(
                     [q.p EXCEPT
                        !.recency = TouchedIn(@, Head(uncached_ids))],
                     f, Tail(uncached_ids), Append(uncached_pages, page.v))
            : q \in {put_page(p, Head(uncached_ids), page.v)}})
        : page \in {from_bytes(<<f[Offset(Head(uncached_ids))],
                                 f[Offset(Head(uncached_ids)) + 1]>>)}})

\* read_pages_batch, last loop: for every id, in the order asked, the next
\* page of the cached ones when the pool holds the id now (the pool is asked
\* again when they are used up), else the next of the pages just read
RECURSIVE Combine(_, _, _, _, _, _)
Combine(p, page_ids, i, cached_iter, uncached_iter, result) ==
    IF i > Len(page_ids)
    THEN [ok |-> TRUE, blocked |-> FALSE, p |-> p, v |-> result]
    ELSE IF page_ids[i] \in DOMAIN p.cache
    THEN IF cached_iter # <<>>
         THEN Combine(Got(p, page_ids[i]), page_ids, i + 1,
                      Tail(cached_iter), uncached_iter,
                      Append(result, Head(cached_iter)))
         ELSE Combine(Got(Got(p, page_ids[i]), page_ids[i]), page_ids, i + 1,
                      cached_iter, uncached_iter,
                      Append(result, p.cache[page_ids[i]]))
    ELSE IF uncached_iter = <<>>
    THEN [ok |-> FALSE, blocked |-> FALSE, p |-> p, v |-> "panic"]
    ELSE Combine(p, page_ids, i + 1, cached_iter, Tail(uncached_iter),
                 Append(result, Head(uncached_iter)))

\* Manager::read_pages_batch(page_ids) on pool p and file f
read_pages_batch(p, f, page_ids) ==
    Only({
        IF c.uncached_ids = <<>>
        THEN [ok |-> TRUE, blocked |-> FALSE, p |-> c.p, v |-> c.pages]
        ELSE Only({
            IF ~u.ok THEN u
            ELSE Combine(u.p, page_ids, 1, c.pages, u.v, <<>>)
            : u \in {ReadUncached(c.p, f, sort_unstable(c.uncached_ids),
                                  <<>>)}})
        : c \in {CheckCache([p |-> p, pages |-> <<>>, uncached_ids |-> <<>>],
                            page_ids, 1)}})

\* one whole Manager::read_page(page_id) on pool p and file f
read_page(p, f, page_id) ==
    IF page_id \in DOMAIN p.cache
    THEN [ok |-> TRUE, blocked |-> FALSE, p |-> Got(p, page_id),
          v |-> p.cache[page_id]]
    ELSE ReadUncached(p, f, <<page_id>>, <<>>)

\* the ids a batch may name: the pages of the file, and one id past its end
BatchIds == 1..(NumPages + 1)

\* the id lists handed to read_pages_batch
Batches == UNION {[1..n -> BatchIds] : n \in 0..MaxBatch}

\* Manager::new on a file that holds the pages 1..NumPages, with a pool for
\* 1..MaxBufferSize pages
InitBatch ==
    /\ pages = [id \in PageIds |-> VersionPage(id, 0)]
    /\ leaf_registry = [i \in 1..NumPages |-> i]
    /\ next_page_id = 1
    /\ root_page_id = 1
    /\ expected = {}
    /\ perm = TRUE
    /\ last = [op |-> "init", key |-> 0, ok |-> TRUE, res |-> None]
    /\ IdleIO
    /\ IdleTasks
    /\ buffer_size \in 1..MaxBufferSize

\* what a call that ended as r leaves behind
AfterRead(r) ==
    /\ SetPool(r.p)
    /\ recency' = r.p.recency
    /\ cache_stuck' = r.blocked
    /\ file_lock' = IF r.blocked THEN Writer ELSE file_lock
    /\ UNCHANGED <<tableVars, file, cursor, pc, arg, buf, started, committed,
                   lo, taskVars>>

\* one read_page(id)
ReadPage(id) ==
    /\ ~cache_stuck
    /\ \E r \in {read_page(PoolWithRecency, file, id)} :
          /\ AfterRead(r)
          /\ last' = [op |-> "read_page", key |-> id, ok |-> r.ok,
                      res |-> IF r.ok /\ id \notin DOMAIN cache
                              THEN r.v[1] ELSE r.v]

\* one read_pages_batch(page_ids)
ReadPagesBatch(page_ids) ==
    /\ ~cache_stuck
    /\ \E r \in {read_pages_batch(PoolWithRecency, file, page_ids)} :
          /\ AfterRead(r)
          /\ last' = [op |-> "read_pages_batch", key |-> page_ids,
                      ok |-> r.ok, res |-> r.v]

NextBatch ==
    \/ \E id \in BatchIds : ReadPage(id)
    \/ \E page_ids \in Batches : ReadPagesBatch(page_ids)

SpecBatch == InitBatch /\ [][NextBatch]_vars

\* -------------------------------------------------------------------- scans

\* Option<T>: None is <<>>, Some(x) is <<x>>
Some(x) == <<x>>

\* the schema of the table: the names of its columns, here 1 and 2, at the
\* indices 1 and 2 of Row.data
TableSchema == <<1, 2>>

\* Schema::get_column_index, counted from 1 as Row.data is here; 0 is None
get_column_index(schema, name) == Position(schema, name) + 1

\* Schema::get_column_indices: None when a name is not a column
get_column_indices(schema, column_names) ==
    IF \A i \in 1..Len(column_names) : get_column_index(schema, column_names[i]) # 0
    THEN Some([i \in 1..Len(column_names) |->
                 get_column_index(schema, column_names[i])])
    ELSE <<>>

\* Schema::project_row: the columns at the indices the row has, in the order
\* of the indices
RECURSIVE project_row(_, _)
project_row(row, column_indices) ==
    IF column_indices = <<>> THEN [id |-> row.id, data |-> <<>>]
    ELSE [id |-> row.id,
          data |-> (IF Head(column_indices) <= Len(row.data)
                    THEN <<row.data[Head(column_indices)]>> ELSE <<>>)
                   \o project_row(row, Tail(column_indices)).data]

\* projection_indices of a scan
projection_indices(opts) ==
    IF opts.projection # <<>>
    THEN get_column_indices(TableSchema, opts.projection[1]) ELSE <<>>

\* result_schema of a scan: the projected columns the schema has, or the
\* schema
result_schema(opts) ==
    IF opts.projection # <<>>
    THEN SelectSeq(opts.projection[1],
                   LAMBDA name : get_column_index(TableSchema, name) # 0)
    ELSE TableSchema

\* effective_limit of a scan
effective_limit(opts) ==
    IF opts.limit # <<>>
    THEN Some(opts.limit[1] + (IF opts.offset # <<>> THEN opts.offset[1] ELSE 0))
    ELSE <<>>

\* the predicate of a scan, when it has one, on a row
Passes(opts, row) ==
    opts.predicate = <<>> \/ evaluate_predicate_optimized(opts.predicate[1], row)

\* the projection of a scan on a row that passed
Projected(opts, row) ==
    IF projection_indices(opts) # <<>>
    THEN project_row(row, projection_indices(opts)[1]) ELSE row

\* the closure of sort_rows: the first order_by column that both rows have
\* and that tells them apart decides
RECURSIVE RowOrdering(_, _, _, _)
RowOrdering(a, b, order_by, schema) ==
    IF order_by = <<>> THEN "Equal"
    ELSE IF /\ get_column_index(schema, Head(order_by).column) # 0
            /\ get_column_index(schema, Head(order_by).column) <= Len(a.data)
            /\ get_column_index(schema, Head(order_by).column) <= Len(b.data)
            /\ a.data[get_column_index(schema, Head(order_by).column)]
                  # b.data[get_column_index(schema, Head(order_by).column)]
    THEN IF Head(order_by).direction = "Ascending"
         THEN compare_values(
                  a.data[get_column_index(schema, Head(order_by).column)],
                  b.data[get_column_index(schema, Head(order_by).column)])
         ELSE compare_values(
                  b.data[get_column_index(schema, Head(order_by).column)],
                  a.data[get_column_index(schema, Head(order_by).column)])
    ELSE RowOrdering(a, b, Tail(order_by), schema)

\* sort_rows: Vec::sort_by is stable, rows that compare Equal keep their order
RECURSIVE sort_rows(_, _, _)
sort_rows(rows, order_by, schema) ==
    IF rows = <<>> THEN <<>>
    ELSE Only({
        InsertAt(sorted,
                 Min({i \in 1..(Len(sorted) + 1) :
                        i = Len(sorted) + 1
                        \/ RowOrdering(sorted[i], rows[Len(rows)], order_by,
                                       schema) = "Greater"}) - 1,
                 rows[Len(rows)])
        : sorted \in {sort_rows(SubSeq(rows, 1, Len(rows) - 1), order_by,
                                schema)}})

\* the end of both scans: sort_rows when order_by is given, then the offset
\* is drained and the rows are cut to the limit
SortOffsetLimit(rows, opts) ==
    Only({Only({IF opts.limit # <<>> /\ Len(dropped) > opts.limit[1]
                THEN SubSeq(dropped, 1, opts.limit[1]) ELSE dropped
                : dropped \in {IF opts.offset = <<>> THEN sorted
                               ELSE SubSeq(sorted, opts.offset[1] + 1,
                                           Len(sorted))}})
          : sorted \in {IF opts.order_by # <<>> /\ rows # <<>>
                        THEN sort_rows(rows, opts.order_by[1],
                                       result_schema(opts))
                        ELSE rows}})

\* the counters of a scan that has read nothing
NoRows == [rows |-> <<>>, pages_read |-> 0, total_scanned |-> 0,
           filtered_count |-> 0, stop |-> FALSE]

\* sequential_scan, the loop over the rows of one leaf: a row is counted
\* before the limit is looked at
RECURSIVE ScanRows(_, _, _, _)
ScanRows(values, i, opts, acc) ==
    IF i > Len(values) THEN acc
    ELSE IF /\ effective_limit(opts) # <<>>
            /\ acc.filtered_count >= effective_limit(opts)[1]
    THEN [acc EXCEPT !.total_scanned = @ + 1, !.stop = TRUE]
    ELSE IF ~Passes(opts, values[i])
    THEN ScanRows(values, i + 1, opts, [acc EXCEPT !.total_scanned = @ + 1])
    ELSE ScanRows(values, i + 1, opts,
                  [acc EXCEPT !.total_scanned = @ + 1,
                              !.filtered_count = @ + 1,
                              !.rows = Append(@, Projected(opts, values[i]))])

\* sequential_scan, the loop over the leaf chain; a page served by the
\* read-ahead buffer is the page read_page returned for it. A leaf that
\* cannot be read is tried again for ever, and so is a chain that runs in a
\* circle
RECURSIVE ScanChain(_, _, _, _, _)
ScanChain(s, current_leaf_id, opts, acc, fuel) ==
    IF current_leaf_id = None THEN [ok |-> TRUE, v |-> acc]
    ELSE IF fuel = 0 \/ ~HasPage(s, current_leaf_id)
    THEN [ok |-> FALSE, v |-> "never returns"]
    ELSE Only({
        IF /\ effective_limit(opts) # <<>>
           /\ a.filtered_count >= effective_limit(opts)[1]
        THEN [ok |-> TRUE, v |-> a]
        ELSE ScanChain(s, s.pages[current_leaf_id].next_leaf_page_id, opts, a,
                       fuel - 1)
        : a \in {ScanRows(s.pages[current_leaf_id].values, 1, opts,
                          [acc EXCEPT !.pages_read = @ + 1])}})

\* ScanOperation::sequential_scan from start_leaf_id
sequential_scan(s, start_leaf_id, opts) ==
    Only({
        IF ~r.ok THEN r
        ELSE [ok |-> TRUE,
              v |-> [rows |-> SortOffsetLimit(r.v.rows, opts),
                     total_scanned |-> r.v.total_scanned,
                     pages_read |-> r.v.pages_read,
                     filtered_count |-> r.v.filtered_count]]
        : r \in {ScanChain(s, start_leaf_id, opts, NoRows, Fuel)}})

\* what a client did to the table before the scans: one execute_batch of
\* `load`, then, if `truncate`, a truncate and one execute_batch of `reload`
Histories ==
    {[load |-> [i \in 1..ScanLoad |-> i], truncate |-> FALSE, reload |-> <<>>],
     [load |-> <<1, 2, 6, 7, 8, 3, 4, 5, 9>>, truncate |-> FALSE,
      reload |-> <<>>],
     [load |-> [i \in 1..ScanLoad |-> i], truncate |-> TRUE,
      reload |-> [i \in 1..Reload |-> i]]}

\* the rows with the keys of seq
RowsOf(seq) == [i \in 1..Len(seq) |-> Row(seq[i])]

\* the table after history h: [s, root]
Built(h) ==
    Only({
        IF ~h.truncate
        THEN [s |-> b.s, root |-> IF b.ok /\ b.v # None THEN b.v ELSE 1]
        ELSE Only({[s |-> c.s, root |-> IF c.ok /\ c.v # None THEN c.v ELSE 1]
                   : c \in {execute_batch(truncate(b.s), RowsOf(h.reload), 1,
                                          None)}})
        : b \in {execute_batch(
                     [pages |-> (1 :> Page(1, TRUE, None, <<>>, <<>>, <<>>,
                                           None)),
                      reg |-> <<1>>, next |-> 2],
                     RowsOf(h.load), 1, None)}})

\* the ScanOptions the scans are called with; the schema is always given
ScanOptionsSet ==
    [predicate : {<<>>,
                  Some([kind |-> "ColumnGreaterThan", column |-> 1, value |-> 2]),
                  Some([kind |-> "ColumnEquals", column |-> 2, value |-> 0])},
     projection : {<<>>, Some(<<2, 1>>)},
     limit : {<<>>} \cup {Some(l) : l \in 1..MaxLimit},
     offset : {<<>>, Some(1)},
     order_by : {<<>>, Some(<<[column |-> 2, direction |-> "Ascending"]>>),
                 Some(<<[column |-> 1, direction |-> "Descending"]>>)}]

\* a table with one of the histories, nobody scanning
InitScan ==
    /\ \E h \in Histories : \E t \in {Built(h)} :
          /\ pages = t.s.pages
          /\ leaf_registry = t.s.reg
          /\ next_page_id = t.s.next
          /\ root_page_id = t.root
          /\ expected = Range(IF h.truncate THEN h.reload ELSE h.load)
    /\ perm = FALSE
    /\ last = [op |-> "init", key |-> 0, ok |-> TRUE, res |-> None]
    /\ IdleIO
    /\ IdleTasks
    /\ buffer_size = max_pages

\* the scan variables when no parallel scan is under way
ScanOver ==
    /\ options' = <<>>
    /\ workers' = [w \in WorkerIds |-> IdleWorker]
    /\ total_rows_found' = 0
    /\ should_stop' = FALSE
    /\ completed' = <<>>
    /\ collector' = IdleCollector

\* ScanOperation::execute with parallel false: find_leftmost_leaf, then
\* sequential_scan
SequentialScan(opts) ==
    /\ options = <<>>
    /\ \E f \in {find_leftmost_leaf(Store, root_page_id, Fuel)} :
       \E r \in {IF f.ok THEN sequential_scan(Store, f.v, opts)
                 ELSE [ok |-> FALSE, v |-> f.v]} :
          last' = [op |-> "sequential_scan", key |-> opts, ok |-> r.ok,
                   res |-> r.v]
    /\ UNCHANGED <<tableVars, ioVars, taskVars>>

\* pages_per_worker of parallel_scan
pages_per_worker(total_pages) ==
    IF (total_pages + max_workers - 1) \div max_workers > 1
    THEN (total_pages + max_workers - 1) \div max_workers ELSE 1

\* the worker_page_ids of worker_id, <<>> for a worker that is not spawned
worker_page_ids(all_leaf_page_ids, worker_id) ==
    SubSeq(all_leaf_page_ids,
           worker_id * pages_per_worker(Len(all_leaf_page_ids)) + 1,
           IF (worker_id + 1) * pages_per_worker(Len(all_leaf_page_ids))
                 < Len(all_leaf_page_ids)
           THEN (worker_id + 1) * pages_per_worker(Len(all_leaf_page_ids))
           ELSE Len(all_leaf_page_ids))

\* ScanOperation::execute with parallel true: find_leftmost_leaf, then
\* parallel_scan up to the spawning of the workers over the registry
ParallelStart(opts) ==
    /\ options = <<>>
    /\ \E f \in {find_leftmost_leaf(Store, root_page_id, Fuel)} :
          IF ~f.ok
          THEN /\ last' = [op |-> "parallel_scan", key |-> opts, ok |-> FALSE,
                           res |-> f.v]
               /\ UNCHANGED scanVars
          ELSE IF leaf_registry = <<>>
          THEN /\ last' = [op |-> "parallel_scan", key |-> opts, ok |-> TRUE,
                           res |-> [rows |-> <<>>, total_scanned |-> 0,
                                    pages_read |-> 0, filtered_count |-> 0]]
               /\ UNCHANGED scanVars
          ELSE /\ last' = [op |-> "spawn", key |-> opts, ok |-> TRUE,
                           res |-> None]
               /\ options' = Some(opts)
               /\ workers' =
                     [w \in WorkerIds |->
                        IF worker_page_ids(leaf_registry, w) = <<>>
                        THEN IdleWorker
                        ELSE [IdleWorker EXCEPT
                                !.pc = "page",
                                !.page_ids = worker_page_ids(leaf_registry, w)]]
               /\ collector' =
                     [IdleCollector EXCEPT
                        !.pending_tasks =
                           Cardinality({w \in WorkerIds :
                              worker_page_ids(leaf_registry, w) # <<>>})]
               /\ total_rows_found' = 0
               /\ should_stop' = FALSE
               /\ completed' = <<>>
    /\ UNCHANGED <<tableVars, ioVars, allocVars, regVars, sequential>>

\* the frame of a worker's step
WorkerFrame ==
    UNCHANGED <<tableVars, last, ioVars, allocVars, regVars, sequential, options,
                collector>>

\* the worker returns Ok with its rows and counters
Returns(w, worker) ==
    /\ workers' = [workers EXCEPT ![w] = [worker EXCEPT !.pc = "ok"]]
    /\ completed' = Append(completed, w)

\* where a worker goes when it is done with a row: the next row, or past the
\* loop over the rows
AfterRow(worker) ==
    [worker EXCEPT !.values = Tail(@),
                   !.pc = IF Len(worker.values) > 1 THEN "row" ELSE "after"]

\* registry_worker_scan_with_limit, top of the loop over the pages: the loop
\* ends with the ids, or when should_stop is loaded as true
WorkerNextPage(w) ==
    /\ workers[w].pc = "page"
    /\ IF workers[w].page_ids = <<>> \/ should_stop
       THEN Returns(w, workers[w])
       ELSE /\ workers' = [workers EXCEPT ![w].pc =
                              IF effective_limit(options[1]) # <<>>
                              THEN "limit" ELSE "read"]
            /\ UNCHANGED completed
    /\ UNCHANGED <<total_rows_found, should_stop>>
    /\ WorkerFrame

\* the load of total_rows_found before a page is read
WorkerCheckLimit(w) ==
    /\ workers[w].pc = "limit"
    /\ IF total_rows_found >= effective_limit(options[1])[1]
       THEN /\ should_stop' = TRUE
            /\ Returns(w, workers[w])
       ELSE /\ workers' = [workers EXCEPT ![w].pc = "read"]
            /\ UNCHANGED <<should_stop, completed>>
    /\ UNCHANGED total_rows_found
    /\ WorkerFrame

\* storage_manager.read_page(page_id)?: an error ends the worker with Err
WorkerRead(w) ==
    /\ workers[w].pc = "read"
    /\ IF ~HasPage(Store, Head(workers[w].page_ids))
       THEN /\ workers' = [workers EXCEPT ![w].pc = "err"]
            /\ completed' = Append(completed, w)
       ELSE /\ workers' =
                  [workers EXCEPT ![w] =
                     [@ EXCEPT
                        !.page_ids = Tail(@),
                        !.values = pages[Head(workers[w].page_ids)].values,
                        !.pages_read = @ + 1,
                        !.pc = IF pages[Head(workers[w].page_ids)].values = <<>>
                               THEN "after" ELSE "row"]]
            /\ UNCHANGED completed
    /\ UNCHANGED <<total_rows_found, should_stop>>
    /\ WorkerFrame

\* one row: it is counted, total_rows_found is loaded when there is a limit,
\* and the predicate is applied
WorkerRow(w) ==
    /\ workers[w].pc = "row"
    /\ IF /\ effective_limit(options[1]) # <<>>
          /\ total_rows_found >= effective_limit(options[1])[1]
       THEN /\ should_stop' = TRUE
            /\ workers' = [workers EXCEPT ![w] =
                             [@ EXCEPT !.total_scanned = @ + 1,
                                       !.pc = "after"]]
       ELSE /\ UNCHANGED should_stop
            /\ workers' =
                  [workers EXCEPT ![w] =
                     IF Passes(options[1], Head(workers[w].values))
                     THEN [@ EXCEPT !.total_scanned = @ + 1,
                                    !.filtered_count = @ + 1, !.pc = "add"]
                     ELSE AfterRow([@ EXCEPT !.total_scanned = @ + 1])]
    /\ UNCHANGED <<total_rows_found, completed>>
    /\ WorkerFrame

\* total_rows_found.fetch_add(1), and the projected row is pushed
WorkerAdd(w) ==
    /\ workers[w].pc = "add"
    /\ total_rows_found' = total_rows_found + 1
    /\ workers' =
          [workers EXCEPT ![w] =
             AfterRow([@ EXCEPT !.result_rows =
                          Append(@, Projected(options[1],
                                              Head(workers[w].values)))])]
    /\ UNCHANGED <<should_stop, completed>>
    /\ WorkerFrame

\* the load of should_stop after the rows of a page
WorkerAfter(w) ==
    /\ workers[w].pc = "after"
    /\ IF should_stop
       THEN Returns(w, workers[w])
       ELSE /\ workers' = [workers EXCEPT ![w].pc = "page"]
            /\ UNCHANGED completed
    /\ UNCHANGED <<total_rows_found, should_stop>>
    /\ WorkerFrame

\* the collector after it has added the result of worker w
Joined(w) ==
    [all_rows |-> collector.all_rows \o workers[w].result_rows,
     total_pages_read |-> collector.total_pages_read + workers[w].pages_read,
     total_scanned |-> collector.total_scanned + workers[w].total_scanned,
     total_filtered |-> collector.total_filtered + workers[w].filtered_count,
     pending_tasks |-> collector.pending_tasks - 1]

\* parallel_scan, one join_next(): the task that ended first and is not yet
\* joined. An Err is returned at once; an Ok result is added, and the scan
\* ends when the limit is reached (the other tasks are shut down) or when no
\* task is pending: sort, offset, limit
JoinNext ==
    /\ options # <<>>
    /\ completed # <<>>
    /\ \E w \in {Head(completed)} :
          IF workers[w].pc = "err"
          THEN /\ last' = [op |-> "parallel_scan", key |-> options[1],
                           ok |-> FALSE, res |-> "IoError"]
               /\ ScanOver
          ELSE \E c \in {Joined(w)} :
               IF \/ c.pending_tasks = 0
                  \/ /\ effective_limit(options[1]) # <<>>
                     /\ c.total_filtered >= effective_limit(options[1])[1]
               THEN /\ last' =
                          [op |-> "parallel_scan", key |-> options[1],
                           ok |-> TRUE,
                           res |-> [rows |-> SortOffsetLimit(c.all_rows,
                                                             options[1]),
                                    total_scanned |-> c.total_scanned,
                                    pages_read |-> c.total_pages_read,
                                    filtered_count |-> c.total_filtered]]
                    /\ ScanOver
               ELSE /\ collector' = c
                    /\ completed' = Tail(completed)
                    /\ workers' = [workers EXCEPT ![w] = IdleWorker]
                    /\ UNCHANGED <<last, options, total_rows_found,
                                   should_stop>>
    /\ UNCHANGED <<tableVars, ioVars, allocVars, regVars, sequential>>

NextScan ==
    \/ \E opts \in ScanOptionsSet : SequentialScan(opts)
    \/ \E opts \in ScanOptionsSet : ParallelStart(opts)
    \/ \E w \in WorkerIds : WorkerNextPage(w)
    \/ \E w \in WorkerIds : WorkerCheckLimit(w)
    \/ \E w \in WorkerIds : WorkerRead(w)
    \/ \E w \in WorkerIds : WorkerRow(w)
    \/ \E w \in WorkerIds : WorkerAdd(w)
    \/ \E w \in WorkerIds : WorkerAfter(w)
    \/ JoinNext

SpecScan == InitScan /\ [][NextScan]_vars

\* ------------------------------------------------- what a scan would read

\* the leaf ids met from `id` along next_leaf_page_id (a walk that comes back
\* to a leaf it has seen, or leaves the file, ends there)
RECURSIVE ChainFrom(_, _, _)
ChainFrom(pgs, id, seen) ==
    IF id = None \/ id \notin DOMAIN pgs \/ id \in seen THEN <<>>
    ELSE <<id>> \o ChainFrom(pgs, pgs[id].next_leaf_page_id, seen \cup {id})

\* the leaf chain of the tree under `root`, from its leftmost leaf
LeafChain(pgs, root) ==
    LET l == find_leftmost_leaf([pages |-> pgs], root, Fuel)
    IN IF l.ok /\ l.v # None THEN ChainFrom(pgs, l.v, {}) ELSE <<>>

RECURSIVE ConcatKeys(_, _)
ConcatKeys(pgs, ids) ==
    IF ids = <<>> THEN <<>>
    ELSE pgs[Head(ids)].keys \o ConcatKeys(pgs, Tail(ids))

ChainKeys(pgs, root) == ConcatKeys(pgs, LeafChain(pgs, root))

RECURSIVE ConcatRows(_, _)
ConcatRows(pgs, ids) ==
    IF ids = <<>> THEN <<>>
    ELSE pgs[Head(ids)].values \o ConcatRows(pgs, Tail(ids))

ChainRows(pgs, root) == ConcatRows(pgs, LeafChain(pgs, root))

\* the rows of `rows` that do not satisfy `pred`, in their order
RECURSIVE Survivors(_, _)
Survivors(rows, pred) ==
    IF rows = <<>> THEN <<>>
    ELSE (IF evaluate_predicate_optimized(pred, Head(rows))
          THEN <<>> ELSE <<Head(rows)>>) \o Survivors(Tail(rows), pred)

Ascending(seq) == \A i \in 1..(Len(seq) - 1) : seq[i] < seq[i + 1]

Occurrences(seq, x) == Cardinality({i \in 1..Len(seq) : seq[i] = x})

\* the keys of S in ascending order
RECURSIVE SortedSeq(_)
SortedSeq(S) ==
    IF S = {} THEN <<>> ELSE <<Min(S)>> \o SortedSeq(S \ {Min(S)})

\* the ids of the pages under `id`, itself included
RECURSIVE Reachable(_, _, _)
Reachable(pgs, id, fuel) ==
    IF id \notin DOMAIN pgs \/ fuel = 0 THEN {}
    ELSE {id} \cup (IF pgs[id].is_leaf THEN {}
                    ELSE UNION {Reachable(pgs, c, fuel - 1) :
                                  c \in Range(pgs[id].child_page_ids)})

ReachableLeaves(pgs, id) ==
    {p \in Reachable(pgs, id, Fuel) : pgs[p].is_leaf}

\* the keys stored in the leaves under `id`
SubtreeKeys(pgs, id) ==
    UNION {Range(pgs[p].keys) : p \in ReachableLeaves(pgs, id)}

NoDuplicates(seq) ==
    \A i, j \in 1..Len(seq) : i # j => seq[i] # seq[j]

\* --------------------------------------------------------------- the claims

\* C1: after the keys 1..N have been inserted one at a time, in any order,
\* into the empty registered root leaf, the leaf chain read from the leftmost
\* leaf holds exactly 1, 2, ..., N in ascending order.
C1_SortedUnderInserts ==
    (perm /\ \E n \in 0..MaxKey : expected = 1..n)
        => ChainKeys(pages, root_page_id) = SortedSeq(expected)

\* C2: an insert of a key that some leaf of the chain already holds returns
\* DuplicateKey and changes no page and no registry entry, so that no key
\* occurs twice along the chain.
C2_DuplicateRejected ==
    [][(last'.op = "insert"
          /\ last'.key \in Range(ChainKeys(pages, root_page_id)))
        => (/\ ~last'.ok
            /\ last'.res = "DuplicateKey"
            /\ pages' = pages
            /\ leaf_registry' = leaf_registry
            /\ NoDuplicates(ChainKeys(pages', root_page_id')))]_vars

\* C3: the root id the caller tracks names the root, and the descent from it
\* finds, for every key of the leaf chain, the leaf that holds the key.
C3_RootReachesEveryKey ==
    /\ root_page_id \in DOMAIN pages
    /\ pages[root_page_id].parent_page_id = None
    /\ \A leaf \in Range(LeafChain(pages, root_page_id)) :
         \A k \in Range(pages[leaf].keys) :
            LET f == find_leaf_for_key(Store, k, pages[root_page_id], Fuel)
            IN f.ok /\ f.v = leaf

\* C4: every page under the root other than the root holds at least
\* MIN_KEYS_PER_NODE and at most MAX_KEYS_PER_NODE keys, and the root holds
\* at least one key unless it is an empty leaf.
C4_KeyCounts ==
    \A id \in Reachable(pages, root_page_id, Fuel) :
        IF id = root_page_id
        THEN Len(pages[id].keys) >= 1
               \/ (pages[id].is_leaf /\ pages[id].keys = <<>>)
        ELSE /\ Len(pages[id].keys) >= MIN_KEYS_PER_NODE
             /\ Len(pages[id].keys) <= MAX_KEYS_PER_NODE

\* C5: a stored page has no parent exactly when it is the root, and any other
\* page is among the children of the page its parent_page_id names.
C5_ParentPointers ==
    \A id \in DOMAIN pages :
        /\ (pages[id].parent_page_id = None) <=> (id = root_page_id)
        /\ pages[id].parent_page_id # None =>
             /\ pages[id].parent_page_id \in DOMAIN pages
             /\ id \in Range(pages[pages[id].parent_page_id].child_page_ids)


\* C6: an internal page under the root with keys k1..km has m+1 children, and
\* every key stored under child ci is >= ki (for i >= 1) and < k(i+1) (for
\* i < m).
C6_Separators ==
    \A id \in Reachable(pages, root_page_id, Fuel) :
        ~pages[id].is_leaf =>
          LET keys == pages[id].keys
              ch == pages[id].child_page_ids
          IN /\ Len(ch) = Len(keys) + 1
             /\ \A i \in 1..Len(ch) :
                  \A k \in SubtreeKeys(pages, ch[i]) :
                     /\ (i > 1 => k >= keys[i - 1])
                     /\ (i <= Len(keys) => k < keys[i])

\* C7: the leaf registry lists every leaf under the root exactly once and
\* lists no other id.
C7_RegistryIsReachableLeaves ==
    /\ \A id \in ReachableLeaves(pages, root_page_id) :
          Occurrences(leaf_registry, id) = 1
    /\ Range(leaf_registry) \subseteq ReachableLeaves(pages, root_page_id)

\* C8: a bulk delete with predicate P on a table whose leaf chain is in
\* ascending key order leaves in the chain exactly the rows that were there
\* and do not satisfy P, in the same order.
C8_BulkDeleteKeepsSurvivors ==
    [][(last'.op = "delete" /\ last'.ok
          /\ Ascending(ChainKeys(pages, root_page_id)))
        => ChainRows(pages', root_page_id')
             = Survivors(ChainRows(pages, root_page_id), last'.key)]_vars

SameExceptDirty(p, q) ==
    [p EXCEPT !.is_dirty = FALSE] = [q EXCEPT !.is_dirty = FALSE]

\* the read_page of reader t has returned one of the versions v of its page
ReturnedVersion(t, versions) ==
    /\ buf[t].ok
    /\ \E v \in versions : SameExceptDirty(buf[t].v, VersionPage(arg[t], v))

\* C9: a read_page that began after a write_page of its page had returned
\* returns, in every field but is_dirty, the page of that write, or of a
\* write_page of the same id that was called after it.
C9_ReadSeesReturnedWrite ==
    \A t \in Readers :
        (pc[t] = "done" /\ lo[t] >= 1)
            => ReturnedVersion(t, lo[t]..started[arg[t]])

\* a read served from the pool has returned the page of a returned write,
\* while another reader of the same id, whose pool miss was before that
\* write, has fetched the page from the file
C9_Witness ==
    \E t, u \in Readers :
        /\ t # u /\ arg[t] = arg[u]
        /\ pc[t] = "done" /\ lo[t] >= 1 /\ buf[t].ok
        /\ pc[u] = "done" /\ lo[u] < lo[t]
        /\ buf[u].ok /\ ~buf[u].v.is_dirty

\* C10: whatever write_page of the same id runs meanwhile, a read_page
\* returns a complete page of the id it asked for: the one stored when the
\* read began or one a write_page was called with since, never parts of two.
C10_ReadIsAtomic ==
    \A t \in Readers :
        pc[t] = "done" => ReturnedVersion(t, lo[t]..started[arg[t]])

\* a reader has returned the page being written before write_page returned
C10_WitnessNew ==
    \E t \in Readers :
        /\ pc[t] = "done" /\ buf[t].ok
        /\ committed[arg[t]] < started[arg[t]]
        /\ SameExceptDirty(buf[t].v, VersionPage(arg[t], started[arg[t]]))

\* the cached id whose last get_page hit or put_page is the oldest
LeastRecentlyUsed ==
    LET cached == SelectSeq(recency, LAMBDA x : x \in DOMAIN cache)
    IN cached[Len(cached)]

\* C11: whatever Pool operations have run, the cache map holds at most
\* max_pages pages.
C11_CacheBounded == Cardinality(DOMAIN cache) <= max_pages

\* C12: a put_page that returns, of an id that was not cached, into a pool
\* that held max_pages pages, has removed exactly the least recently used
\* page, and the new id is cached and is the head of the list.
C12_EvictsLeastRecentlyUsed ==
    [][(/\ last'.op = "put_page"
        /\ last'.ok
        /\ last'.key \notin DOMAIN cache
        /\ Cardinality(DOMAIN cache) = max_pages)
       => (/\ DOMAIN cache' =
                (DOMAIN cache \ {LeastRecentlyUsed}) \cup {last'.key}
           /\ head' = last'.key)]_vars

\* C13: allocate_page returns 1 on its first call after the counter was set
\* to 1 (by Manager::new or by truncate), and every later call returns one
\* more than the call before it in the order the calls left the mutex; so the
\* ids of calls issued concurrently are pairwise distinct
C13_AllocateCountsUp == \A i \in 1..Len(returned) : returned[i] = i

\* C13 as stated, over every call since Manager::new, truncate or not
C13_CountsUpSinceNew == \A i \in 1..Len(all_returned) : all_returned[i] = i

\* both tasks have had an id from allocate_page since a truncate
C13_Witness ==
    /\ truncated > 0
    /\ tpc = "idle"
    /\ Len(returned) >= 2
    /\ \A t \in Allocators : apc[t] = "idle" /\ held_id[t] \in Range(returned)
    /\ \A t, u \in Allocators : t # u => held_id[t] # held_id[u]

\* the ids of the slots of file f that hold a page
FilePages(f) ==
    {id \in 0..((Cardinality(DOMAIN f) \div 2) - 1) :
        from_bytes(<<f[Offset(id)], f[Offset(id) + 1]>>).ok}

\* the page the slot id of file f holds
FilePage(f, id) == from_bytes(<<f[Offset(id)], f[Offset(id) + 1]>>).v

\* C14: when truncate has returned, the pool holds no page but the new root
\* and no dirty entry, the data file holds exactly one page, the new root, an
\* empty leaf without parent and without next leaf, and the registry holds
\* the root's id once and nothing else
C14_TruncateLeavesOneRoot ==
    (last.op = "truncate" /\ last.ok) =>
        /\ DOMAIN cache \subseteq {last.key}
        /\ \A id \in DOMAIN cache : cache[id].keys = <<>>
        /\ dirty_pages = {}
        /\ FilePages(file) = {last.key}
        /\ FilePage(file, last.key).is_leaf
        /\ FilePage(file, last.key).keys = <<>>
        /\ FilePage(file, last.key).parent_page_id = None
        /\ FilePage(file, last.key).next_leaf_page_id = None
        /\ leaf_registry = <<last.key>>

\* C15: read_pages_batch(ids), when it returns a vector, returns one of the
\* length of ids whose i-th page has the page id ids[i]
C15_BatchAnswersInOrder ==
    (last.op = "read_pages_batch" /\ last.ok) =>
        /\ Len(last.res) = Len(last.key)
        /\ \A i \in 1..Len(last.key) : last.res[i].page_id = last.key[i]

\* the rows of the leaf chain that pass the predicate of opts, projected, in
\* the order of the chain
Matching(opts) ==
    [i \in 1..Len(SelectSeq(ChainRows(pages, root_page_id),
                            LAMBDA row : Passes(opts, row))) |->
       Projected(opts, SelectSeq(ChainRows(pages, root_page_id),
                                 LAMBDA row : Passes(opts, row))[i])]

\* the complete filtered result in the order asked for: sorted when order_by
\* is given, else as the chain has it
Ordered(opts) ==
    IF opts.order_by # <<>> /\ Matching(opts) # <<>>
    THEN sort_rows(Matching(opts), opts.order_by[1], result_schema(opts))
    ELSE Matching(opts)

\* the rows of seq at the positions [offset, offset + limit)
Window(seq, opts) ==
    SubSeq(seq, (IF opts.offset # <<>> THEN opts.offset[1] ELSE 0) + 1,
           IF (IF opts.offset # <<>> THEN opts.offset[1] ELSE 0)
                 + opts.limit[1] < Len(seq)
           THEN (IF opts.offset # <<>> THEN opts.offset[1] ELSE 0)
                   + opts.limit[1]
           ELSE Len(seq))

\* C16: a scan with a limit, sequential or parallel, returns the rows at the
\* positions [offset, offset + limit) of the complete filtered result in its
\* order: as many rows as that window has, each one a row of the filtered
\* result, and, with order_by, ranked as the rows of the window are (rows
\* that order_by does not tell apart may stand for each other); a sequential
\* scan without order_by returns the window of the chain order
C16_LimitOffsetWindow ==
    (last.op \in {"sequential_scan", "parallel_scan"} /\ last.ok
        /\ last.key.limit # <<>>) =>
       /\ Len(last.res.rows) = Len(Window(Ordered(last.key), last.key))
       /\ \A i \in 1..Len(last.res.rows) :
             last.res.rows[i] \in Range(Matching(last.key))
       /\ last.key.order_by # <<>> =>
             \A i \in 1..Len(last.res.rows) :
                RowOrdering(last.res.rows[i],
                            Window(Ordered(last.key), last.key)[i],
                            last.key.order_by[1], result_schema(last.key))
                   = "Equal"
       /\ (last.key.order_by = <<>> /\ last.op = "sequential_scan") =>
             last.res.rows = Window(Ordered(last.key), last.key)

\* what a sequential scan of the table with opts returns
Sequential(opts) ==
    sequential_scan(Store, find_leftmost_leaf(Store, root_page_id, Fuel).v,
                    opts)

\* seq and other hold the same rows the same number of times
SameMultiset(seq, other) ==
    /\ Len(seq) = Len(other)
    /\ \A x \in Range(seq) : Occurrences(seq, x) = Occurrences(other, x)

\* C17: a parallel scan returns what the sequential scan of the same table
\* with the same options returns: the same vector of rows when order_by is
\* given, the same multiset of rows when it is not, however its workers
\* interleave and in whatever order they end
C17_ParallelEqualsSequential ==
    last.op = "parallel_scan" =>
       /\ last.ok = Sequential(last.key).ok
       /\ last.ok =>
             IF last.key.order_by # <<>>
             THEN last.res.rows = Sequential(last.key).v.rows
             ELSE SameMultiset(last.res.rows, Sequential(last.key).v.rows)

\* the rows of the fullest leaf of the chain
RowsOfOnePage ==
    LET lens == {Len(pages[id].values) :
                    id \in Range(LeafChain(pages, root_page_id))}
    IN CHOOSE n \in lens : \A m \in lens : m <= n

\* C18: a parallel scan with a limit L, no offset and no order_by, whose
\* predicate every row of the table passes, over a table of at least L rows,
\* returns exactly L rows, and its total_scanned is at most L * max_workers
\* plus the rows of one page
C18_ParallelLimitExact ==
    (/\ last.op = "parallel_scan"
     /\ last.key.limit # <<>>
     /\ last.key.offset = <<>>
     /\ last.key.order_by = <<>>
     /\ Len(Matching(last.key)) = Len(ChainRows(pages, root_page_id))
     /\ Len(ChainRows(pages, root_page_id)) >= last.key.limit[1]) =>
       /\ last.ok
       /\ Len(last.res.rows) = last.key.limit[1]
       /\ last.res.total_scanned
             <= last.key.limit[1] * max_workers + RowsOfOnePage

\* C19: a parallel scan does not return Ok when the read_page of one of its
\* workers has returned an error, with or without a limit
C19_WorkerErrorFailsScan ==
    [][(options # <<>> /\ last'.op = "parallel_scan" /\ last'.ok) =>
          \A w \in WorkerIds : workers[w].pc # "err"]_vars

\* C20: a sequential scan without limit, offset and order_by returns the
\* rows of the leaf chain that pass the predicate, projected, in ascending
\* order of their keys; total_scanned is the number of rows of the table and
\* filtered_count the number of rows that passed
C20_SequentialScanComplete ==
    (/\ last.op = "sequential_scan"
     /\ last.key.limit = <<>>
     /\ last.key.offset = <<>>
     /\ last.key.order_by = <<>>) =>
       /\ last.ok
       /\ last.res.rows = Matching(last.key)
       /\ Ascending([i \in 1..Len(last.res.rows) |-> last.res.rows[i].id])
       /\ last.res.total_scanned = Len(ChainRows(pages, root_page_id))
       /\ last.res.filtered_count = Len(Matching(last.key))

\* ------------------------------------------------------- typed predicates

\* Value, as far as the predicates tell variants apart: the variant's name
\* and its payload (a String's payload is its code in the order of strings)
IntegerValue(n) == [type |-> "Integer", v |-> n]

StringValue(n) == [type |-> "String", v |-> n]

BooleanValue(b) == [type |-> "Boolean", v |-> IF b THEN 1 ELSE 0]

NullValue == [type |-> "Null", v |-> 0]

\* format!("{:?}", value) of two values of different variants compares as
\* the names of the variants do: "Boolean(..." < "Integer(..." < "String(..."
DebugRank(value) ==
    CASE value.type = "Boolean" -> 1
      [] value.type = "Integer" -> 2
      [] value.type = "String" -> 3

\* compare_values over Value: the payloads of two values of one variant, Null
\* below everything else, and the Debug strings for every other pair
CompareValues(a, b) ==
    IF a.type = b.type
    THEN compare_values(a.v, b.v)
    ELSE IF a.type = "Null" THEN "Less"
    ELSE IF b.type = "Null" THEN "Greater"
    ELSE compare_values(DebugRank(a), DebugRank(b))

\* cached_indices.get(column) and row.data.get(idx): the value of the column
\* in the row, <<>> when the schema has no such column or the row is short
ColumnValue(column, row, schema) ==
    IF /\ get_column_index(schema, column) # 0
       /\ get_column_index(schema, column) <= Len(row.data)
    THEN <<row.data[get_column_index(schema, column)]>>
    ELSE <<>>

\* match_any_optimized (match_value_optimized with one Ordering)
MatchAny(column, row, value, matches, schema) ==
    /\ ColumnValue(column, row, schema) # <<>>
    /\ CompareValues(ColumnValue(column, row, schema)[1], value) \in matches

\* in_list_optimized
InList(column, row, values, schema) ==
    /\ ColumnValue(column, row, schema) # <<>>
    /\ \E i \in 1..Len(values) :
          CompareValues(ColumnValue(column, row, schema)[1], values[i])
             = "Equal"

\* evaluate_predicate_optimized over Value
RECURSIVE EvaluatePredicate(_, _, _)
EvaluatePredicate(predicate, row, schema) ==
    CASE predicate.kind = "ColumnEquals" ->
            MatchAny(predicate.column, row, predicate.value, {"Equal"}, schema)
      [] predicate.kind = "ColumnNotEquals" ->
            ~MatchAny(predicate.column, row, predicate.value, {"Equal"},
                      schema)
      [] predicate.kind = "ColumnGreaterThan" ->
            MatchAny(predicate.column, row, predicate.value, {"Greater"},
                     schema)
      [] predicate.kind = "ColumnLessThan" ->
            MatchAny(predicate.column, row, predicate.value, {"Less"}, schema)
      [] predicate.kind = "ColumnGreaterThanOrEqual" ->
            MatchAny(predicate.column, row, predicate.value,
                     {"Greater", "Equal"}, schema)
      [] predicate.kind = "ColumnLessThanOrEqual" ->
            MatchAny(predicate.column, row, predicate.value,
                     {"Less", "Equal"}, schema)
      [] predicate.kind = "ColumnIn" ->
            InList(predicate.column, row, predicate.values, schema)
      [] predicate.kind = "ColumnNotIn" ->
            ~InList(predicate.column, row, predicate.values, schema)
      [] predicate.kind = "ColumnBetween" ->
            /\ ColumnValue(predicate.column, row, schema) # <<>>
            /\ CompareValues(ColumnValue(predicate.column, row, schema)[1],
                             predicate.start) \in {"Greater", "Equal"}
            /\ CompareValues(ColumnValue(predicate.column, row, schema)[1],
                             predicate.end) \in {"Less", "Equal"}
      [] predicate.kind = "Not" ->
            ~EvaluatePredicate(predicate.inner, row, schema)

\* the schema of the rows the predicates are evaluated on: an Integer column
\* and a String column
PredicateSchema == <<"a", "b">>

\* the columns predicates name: those of the schema and one it has not
PredicateColumns == {"a", "b", "zz"}

Literals ==
    {IntegerValue(n) : n \in 1..MaxVal} \cup {StringValue(n) : n \in 1..MaxVal}
       \cup {BooleanValue(b) : b \in BOOLEAN}

\* rows of the schema, and rows that lack the second column
TypedRows ==
    {[id |-> n, data |-> <<IntegerValue(n), StringValue(m)>>] :
        n \in 1..MaxVal, m \in 1..MaxVal}
       \cup {[id |-> n, data |-> <<IntegerValue(n)>>] : n \in 1..MaxVal}

Comparisons ==
    [kind : {"ColumnEquals", "ColumnNotEquals", "ColumnGreaterThan",
             "ColumnLessThan", "ColumnGreaterThanOrEqual",
             "ColumnLessThanOrEqual"},
     column : PredicateColumns, value : Literals]
       \cup [kind : {"ColumnIn", "ColumnNotIn"}, column : PredicateColumns,
             values : {<<x>> : x \in Literals}
                         \cup {<<x, IntegerValue(1)>> : x \in Literals}]
       \cup [kind : {"ColumnBetween"}, column : PredicateColumns,
             start : Literals, end : Literals]

TypedPredicates ==
    Comparisons \cup [kind : {"Not"}, inner : Comparisons]

\* the engine at rest, before a predicate is evaluated
InitPredicate == InitManager

\* evaluate_predicate_optimized(predicate, row, schema, cached_indices), with
\* the indices extract_predicate_column_indices took from the schema
Evaluate(predicate, row) ==
    /\ last.op = "init"
    /\ last' = [op |-> "evaluate_predicate",
                key |-> [predicate |-> predicate, row |-> row], ok |-> TRUE,
                res |-> EvaluatePredicate(predicate, row, PredicateSchema)]
    /\ UNCHANGED <<tableVars, ioVars, taskVars>>

NextPredicate ==
    \/ \E predicate \in TypedPredicates, row \in TypedRows :
          Evaluate(predicate, row)

SpecPredicate == InitPredicate /\ [][NextPredicate]_vars

\* the literal of a comparison is of another variant than value: every
\* literal of a list, one of the two bounds of a BETWEEN
Mismatched(predicate, value) ==
    CASE predicate.kind \in {"ColumnIn", "ColumnNotIn"} ->
            \A i \in 1..Len(predicate.values) :
               predicate.values[i].type # value.type
      [] predicate.kind = "ColumnBetween" ->
            predicate.start.type # value.type \/ predicate.end.type # value.type
      [] OTHER -> predicate.value.type # value.type

\* the comparison cannot be decided on the row: the schema or the row lacks
\* its column, or the literal is of another variant than the row's value
Undecidable(predicate, row) ==
    \/ ColumnValue(predicate.column, row, PredicateSchema) = <<>>
    \/ Mismatched(predicate,
                  ColumnValue(predicate.column, row, PredicateSchema)[1])

\* C21: a predicate whose comparison names a column the schema does not
\* have, or compares the row's value with a literal of another Value variant,
\* evaluates to false, whatever the comparison, and under Not as well
C21_MismatchIsFalse ==
    (/\ last.op = "evaluate_predicate"
     /\ Undecidable(IF last.key.predicate.kind = "Not"
                    THEN last.key.predicate.inner ELSE last.key.predicate,
                    last.key.row)) =>
       last.res = FALSE

\* ---------------------------------------------------------------- hash join

\* the join keys are compared as HashMap<Vec<Value>, _> compares them: two
\* keys are one key when their values are equal
SameKey(a, b) == a = b

\* extract_join_key: the values of the row at the columns the conditions
\* name on its side, in declared order; an error when the schema lacks a
\* column or the row is short
RECURSIVE extract_join_key(_, _, _, _)
extract_join_key(row, schema, is_left, join_conditions) ==
    IF join_conditions = <<>> THEN [ok |-> TRUE, v |-> <<>>]
    ELSE \* column_index counts from 1 here, 0 is None
    LET column_name == IF is_left THEN Head(join_conditions).left_column
                       ELSE Head(join_conditions).right_column
        column_index == get_column_index(schema, column_name)
        rest == extract_join_key(row, schema, is_left, Tail(join_conditions))
    IN IF column_index = 0 \/ column_index > Len(row.data)
       THEN [ok |-> FALSE, v |-> "InvalidOperation"]
       ELSE IF ~rest.ok THEN rest
       ELSE [ok |-> TRUE, v |-> <<row.data[column_index]>> \o rest.v]

\* build_hash_table: every row under its key, taken with is_left = false;
\* the table is kept as the entries [key, row] in the order of the rows
RECURSIVE build_hash_table(_, _, _)
build_hash_table(rows, schema, join_conditions) ==
    IF rows = <<>> THEN [ok |-> TRUE, v |-> <<>>]
    ELSE Only({
        IF ~join_key.ok THEN join_key
        ELSE Only({IF ~rest.ok THEN rest
                   ELSE [ok |-> TRUE,
                         v |-> <<[key |-> join_key.v, row |-> Head(rows)]>>
                                  \o rest.v]
                   : rest \in {build_hash_table(Tail(rows), schema,
                                                join_conditions)}})
        : join_key \in {extract_join_key(Head(rows), schema, FALSE,
                                         join_conditions)}})

\* a table that keeps one row per key
TableGetFirst(hash_table, join_key) ==
    IF SelectSeq(hash_table, LAMBDA e : SameKey(e.key, join_key)) = <<>>
    THEN <<>>
    ELSE <<SelectSeq(hash_table, LAMBDA e : SameKey(e.key, join_key))[1].row>>

\* hash_table.get(&join_key): the rows under the key, <<>> for None
TableGet(hash_table, join_key) ==
    [i \in 1..Len(SelectSeq(hash_table,
                            LAMBDA e : SameKey(e.key, join_key))) |->
       SelectSeq(hash_table, LAMBDA e : SameKey(e.key, join_key))[i].row]

\* merge_rows: the left data, then the right data, under the left row's id
merge_rows(left_row, right_row) ==
    [id |-> left_row.id, data |-> left_row.data \o right_row.data]

\* create_null_row: one Null per column of the schema, under the id 0
create_null_row(schema) ==
    [id |-> 0, data |-> [i \in 1..Len(schema) |-> NullValue]]

\* the rows one probing row adds: merged with each of its matches, left row
\* first, or, for an outer side, merged with the null row when it has none
Emitted(row, matches, probe_is_left, null_row, outer) ==
    IF matches # <<>>
    THEN [i \in 1..Len(matches) |->
            IF probe_is_left THEN merge_rows(row, matches[i])
            ELSE merge_rows(matches[i], row)]
    ELSE IF ~outer THEN <<>>
    ELSE IF probe_is_left THEN <<merge_rows(row, null_row)>>
    ELSE <<merge_rows(null_row, row)>>

\* the probe loop the four joins share: acc is [rows, matched], the result
\* rows and the keys that found a match
RECURSIVE Probe(_, _, _, _, _, _, _, _)
Probe(rows, schema, probe_is_left, hash_table, null_row, outer, join_conditions, acc) ==
    IF rows = <<>> THEN [ok |-> TRUE, v |-> acc]
    ELSE Only({
        IF ~join_key.ok THEN join_key
        ELSE Probe(Tail(rows), schema, probe_is_left, hash_table, null_row,
                   outer, join_conditions,
                   [rows |-> acc.rows
                               \o Emitted(Head(rows),
                                          TableGet(hash_table, join_key.v),
                                          probe_is_left, null_row, outer),
                    matched |-> IF TableGet(hash_table, join_key.v) # <<>>
                                THEN acc.matched \cup {join_key.v}
                                ELSE acc.matched])
        : join_key \in {extract_join_key(Head(rows), schema, probe_is_left,
                                         join_conditions)}})

\* JoinResult
JoinResult(rows, left_rows, right_rows) ==
    [ok |-> TRUE,
     v |-> [rows |-> rows, left_rows_processed |-> Len(left_rows),
            right_rows_processed |-> Len(right_rows),
            output_rows |-> Len(rows)]]

\* inner_hash_join and left_outer_hash_join: the table is built over the
\* right rows and probed with the left rows
LeftProbeJoin(left_rows, right_rows, left_schema, right_schema, join_conditions, outer) ==
    Only({
        IF ~hash_table.ok THEN hash_table
        ELSE Only({IF ~r.ok THEN r
                   ELSE JoinResult(r.v.rows, left_rows, right_rows)
                   : r \in {Probe(left_rows, left_schema, TRUE, hash_table.v,
                                  create_null_row(right_schema), outer,
                                  join_conditions,
                                  [rows |-> <<>>, matched |-> {}])}})
        : hash_table \in {build_hash_table(right_rows, right_schema,
                                           join_conditions)}})

inner_hash_join(left_rows, right_rows, left_schema, right_schema, join_conditions) ==
    LeftProbeJoin(left_rows, right_rows, left_schema, right_schema,
                  join_conditions, FALSE)

left_outer_hash_join(left_rows, right_rows, left_schema, right_schema, join_conditions) ==
    LeftProbeJoin(left_rows, right_rows, left_schema, right_schema,
                  join_conditions, TRUE)

\* right_outer_hash_join: the table is built over the left rows, by
\* build_hash_table as it is, and probed with the right rows
right_outer_hash_join(left_rows, right_rows, left_schema, right_schema, join_conditions) ==
    Only({
        IF ~hash_table.ok THEN hash_table
        ELSE Only({IF ~r.ok THEN r
                   ELSE JoinResult(r.v.rows, left_rows, right_rows)
                   : r \in {Probe(right_rows, right_schema, FALSE,
                                  hash_table.v, create_null_row(left_schema),
                                  TRUE, join_conditions,
                                  [rows |-> <<>>, matched |-> {}])}})
        : hash_table \in {build_hash_table(left_rows, left_schema,
                                           join_conditions)}})

\* full_outer_hash_join, second loop: the right rows whose key no left row
\* matched, under the null left row
RECURSIVE UnmatchedRight(_, _, _, _, _)
UnmatchedRight(right_rows, right_schema, matched_right_keys, null_left_row, join_conditions) ==
    IF right_rows = <<>> THEN [ok |-> TRUE, v |-> <<>>]
    ELSE Only({
        IF ~join_key.ok THEN join_key
        ELSE Only({IF ~rest.ok THEN rest
                   ELSE [ok |-> TRUE,
                         v |-> (IF \E k \in matched_right_keys :
                                      SameKey(k, join_key.v)
                                THEN <<>>
                                ELSE <<merge_rows(null_left_row,
                                                  Head(right_rows))>>)
                                  \o rest.v]
                   : rest \in {UnmatchedRight(Tail(right_rows), right_schema,
                                              matched_right_keys,
                                              null_left_row,
                                              join_conditions)}})
        : join_key \in {extract_join_key(Head(right_rows), right_schema,
                                         FALSE, join_conditions)}})

\* full_outer_hash_join: the left outer probe, then the unmatched right rows
full_outer_hash_join(left_rows, right_rows, left_schema, right_schema, join_conditions) ==
    Only({
        IF ~hash_table.ok THEN hash_table
        ELSE Only({
            IF ~r.ok THEN r
            ELSE Only({IF ~u.ok THEN u
                       ELSE JoinResult(r.v.rows \o u.v, left_rows, right_rows)
                       : u \in {UnmatchedRight(right_rows, right_schema,
                                               r.v.matched,
                                               create_null_row(left_schema),
                                               join_conditions)}})
            : r \in {Probe(left_rows, left_schema, TRUE, hash_table.v,
                           create_null_row(right_schema), TRUE,
                           join_conditions,
                           [rows |-> <<>>, matched |-> {}])}})
        : hash_table \in {build_hash_table(right_rows, right_schema,
                                           join_conditions)}})

\* HashJoinOperation::execute
HashJoin(join_type, left_rows, right_rows, left_schema, right_schema, join_conditions) ==
    CASE join_type = "Inner" ->
            inner_hash_join(left_rows, right_rows, left_schema, right_schema,
                            join_conditions)
      [] join_type = "LeftOuter" ->
            left_outer_hash_join(left_rows, right_rows, left_schema,
                                 right_schema, join_conditions)
      [] join_type = "RightOuter" ->
            right_outer_hash_join(left_rows, right_rows, left_schema,
                                  right_schema, join_conditions)
      [] join_type = "FullOuter" ->
            full_outer_hash_join(left_rows, right_rows, left_schema,
                                 right_schema, join_conditions)

\* the schemas of the two sides: they share the column name b
LeftSchema == <<"a", "b">>

RightSchema == <<"b", "c">>

\* the lists of conditions offered, each over columns its side has
JoinConditionLists ==
    {<<>>,
     <<[left_column |-> "a", right_column |-> "b"]>>,
     <<[left_column |-> "b", right_column |-> "b"]>>,
     <<[left_column |-> "a", right_column |-> "c"]>>,
     <<[left_column |-> "a", right_column |-> "b"],
       [left_column |-> "b", right_column |-> "c"]>>}

\* the lists of up to MaxJoinRows rows, ids in list order; a left row takes
\* any value in a and the value 1 in b, a right row any value in b and the
\* value 1 in c
RowLists(datas) ==
    UNION {{[i \in 1..n |-> [id |-> i, data |-> d[i]]] : d \in [1..n -> datas]}
             : n \in 0..MaxJoinRows}

LeftRowLists ==
    RowLists({<<IntegerValue(x), IntegerValue(1)>> : x \in 1..MaxVal})

RightRowLists ==
    RowLists({<<IntegerValue(x), IntegerValue(1)>> : x \in 1..MaxVal})

\* HashJoinOperation::new(.., join_type, join_conditions).execute(left_rows,
\* right_rows, left_schema, right_schema)
Join(join_type, left_rows, right_rows, join_conditions) ==
    /\ last.op = "init"
    /\ \E r \in {HashJoin(join_type, left_rows, right_rows, LeftSchema,
                          RightSchema, join_conditions)} :
          last' = [op |-> "join",
                   key |-> [join_type |-> join_type, left_rows |-> left_rows,
                            right_rows |-> right_rows,
                            join_conditions |-> join_conditions],
                   ok |-> r.ok, res |-> r.v]
    /\ UNCHANGED <<tableVars, ioVars, taskVars>>

NextJoin ==
    \/ \E join_type \in {"Inner", "LeftOuter", "RightOuter", "FullOuter"},
          left_rows \in LeftRowLists, right_rows \in RightRowLists,
          join_conditions \in JoinConditionLists :
             Join(join_type, left_rows, right_rows, join_conditions)

SpecJoin == InitManager /\ [][NextJoin]_vars

\* the join key of a row of the last join: its values at the columns the
\* conditions name on its side
KeyOf(row, schema, is_left) ==
    [i \in 1..Len(last.key.join_conditions) |->
       row.data[get_column_index(schema,
                                 IF is_left
                                 THEN last.key.join_conditions[i].left_column
                                 ELSE last.key.join_conditions[i].right_column)]]

\* the pairs <<i, j>> of a left and a right row of the last join with equal
\* join keys
MatchingPairs ==
    {p \in (1..Len(last.key.left_rows)) \X (1..Len(last.key.right_rows)) :
        KeyOf(last.key.left_rows[p[1]], LeftSchema, TRUE)
           = KeyOf(last.key.right_rows[p[2]], RightSchema, FALSE)}

\* the left rows, and the right rows, of the last join without a match
UnmatchedLeftRows ==
    {i \in 1..Len(last.key.left_rows) : \A p \in MatchingPairs : p[1] # i}

UnmatchedRightRows ==
    {j \in 1..Len(last.key.right_rows) : \A p \in MatchingPairs : p[2] # j}

\* how often the row v belongs in the result of the last join: once per
\* matching pair it is the merge of, and once per unmatched row of an outer
\* side it is the null extension of
ExpectedCount(v) ==
    Cardinality({p \in MatchingPairs :
                    v = [id |-> last.key.left_rows[p[1]].id,
                         data |-> last.key.left_rows[p[1]].data
                                     \o last.key.right_rows[p[2]].data]})
    + (IF last.key.join_type \in {"LeftOuter", "FullOuter"}
       THEN Cardinality({i \in UnmatchedLeftRows :
                v = [id |-> last.key.left_rows[i].id,
                     data |-> last.key.left_rows[i].data
                                 \o <<NullValue, NullValue>>]})
       ELSE 0)
    + (IF last.key.join_type \in {"RightOuter", "FullOuter"}
       THEN Cardinality({j \in UnmatchedRightRows :
                v = [id |-> 0,
                     data |-> <<NullValue, NullValue>>
                                 \o last.key.right_rows[j].data]})
       ELSE 0)

\* the number of rows the last join owes
ExpectedRows ==
    Cardinality(MatchingPairs)
    + (IF last.key.join_type \in {"LeftOuter", "FullOuter"}
       THEN Cardinality(UnmatchedLeftRows) ELSE 0)
    + (IF last.key.join_type \in {"RightOuter", "FullOuter"}
       THEN Cardinality(UnmatchedRightRows) ELSE 0)

\* the last join returned the rows it owes, each as often as it owes it
JoinIsRight ==
    /\ last.ok
    /\ Len(last.res.rows) = ExpectedRows
    /\ \A i \in 1..Len(last.res.rows) :
          Occurrences(last.res.rows, last.res.rows[i])
             = ExpectedCount(last.res.rows[i])

\* C22: an Inner hash join returns one row per pair of a left and a right
\* row with equal join keys, so as many rows as the sum over the keys k of
\* |L_k| * |R_k|, and output_rows is the length of the row list
C22_InnerJoinCardinality ==
    (last.op = "join" /\ last.key.join_type = "Inner") =>
       (JoinIsRight /\ last.res.output_rows = Len(last.res.rows))

\* an Inner join over a key that two left rows and two right rows share, and
\* one over rows that do not all match
C22_Witness ==
    /\ last.op = "join" /\ last.key.join_type = "Inner" /\ last.ok
    /\ last.key.join_conditions # <<>>
    /\ Len(last.key.left_rows) = 2 /\ Len(last.key.right_rows) = 2
    /\ last.res.output_rows = 4

\* C23: a LeftOuter join returns the rows of the inner join and one row with
\* Null right columns per unmatched left row, a RightOuter join the rows of
\* the inner join and one row with Null left columns per unmatched right
\* row, a FullOuter join all three, every unmatched row once
C23_OuterJoins ==
    (last.op = "join"
        /\ last.key.join_type \in {"LeftOuter", "RightOuter", "FullOuter"}) =>
       JoinIsRight

\* ------------------------------------------------------- the first split

\* the keys 1, 2, 3, 4 went into the empty root leaf and the last operation
\* was the insert of 5 (the four keys fill the root leaf without a split, so
\* the table before the fifth insert is the same in whatever order they came)
FifthInsert ==
    /\ perm
    /\ expected = 1..5
    /\ last.op = "insert"
    /\ last.key = 5

\* C24: with MAX_KEYS_PER_NODE = 4, after the inserts of 1, 2, 3, 4, 5 into
\* the empty registered root leaf the root is an internal page with the keys
\* [3] and no parent, its two children are the leaves [1, 2] and [3, 4, 5],
\* the first leaf's next_leaf_page_id is the second leaf and the second's is
\* None, the registry holds exactly the two leaf ids, and the fifth insert
\* returned Some(id of the new root)
C24_FirstSplit ==
    FifthInsert =>
       /\ last.ok /\ last.res # None /\ last.res = root_page_id
       /\ root_page_id \in DOMAIN pages
       /\ ~pages[root_page_id].is_leaf
       /\ pages[root_page_id].keys = <<3>>
       /\ pages[root_page_id].parent_page_id = None
       /\ Len(pages[root_page_id].child_page_ids) = 2
       /\ \E left \in DOMAIN pages, right \in DOMAIN pages :
             /\ pages[root_page_id].child_page_ids = <<left, right>>
             /\ pages[left].is_leaf /\ pages[left].keys = <<1, 2>>
             /\ pages[left].values = <<Row(1), Row(2)>>
             /\ pages[right].is_leaf /\ pages[right].keys = <<3, 4, 5>>
             /\ pages[right].values = <<Row(3), Row(4), Row(5)>>
             /\ pages[left].next_leaf_page_id = right
             /\ pages[right].next_leaf_page_id = None
             /\ Len(leaf_registry) = 2
             /\ Range(leaf_registry) = {left, right}

\* the fifth insert has split the root leaf
C24_Witness ==
    FifthInsert /\ MAX_KEYS_PER_NODE = 4 /\ last.ok /\ root_page_id # 1

\* --------------------------------------------------------- the leaf registry
\* LeafPageRegistry over its file.  The file is its count field (the u64 at
\* offset 4) and the u64 words after the 12 byte header; the magic number is
\* written by initialize_if_empty and by remove_leaf_page only, always as
\* REGISTRY_MAGIC, and is left out.  Every operation holds the file mutex
\* from its first line to its return.

UsizeMax == 2 ^ UsizeBits - 1

RegistryIds == 1..2

\* n calls of read_u64 from the word at index start (0-based): the words, or
\* UnexpectedEof where the file ends before them
ReadIds(f, start, n) ==
    IF start + n <= Len(f.ids)
    THEN [ok |-> TRUE, v |-> SubSeq(f.ids, start + 1, start + n)]
    ELSE [ok |-> FALSE, v |-> "UnexpectedEof"]

\* u64 writes of page_ids from the first word after the header: they replace
\* the words there and leave the ones after them
WriteIds(f, page_ids) ==
    [i \in 1..(IF Len(f.ids) > Len(page_ids) THEN Len(f.ids)
                ELSE Len(page_ids)) |->
        IF i <= Len(page_ids) THEN page_ids[i] ELSE f.ids[i]]

\* add_leaf_page: the count is read, page_id is written at SeekFrom::End(0),
\* the count is written back plus one
add_leaf_page(f, page_id) ==
    [ok |-> TRUE, v |-> None,
     file |-> [count |-> f.count + 1, ids |-> Append(f.ids, page_id)]]

\* remove_leaf_page: count ids are read, the first one equal to page_id is
\* taken out, the file is written again and cut with set_len
remove_leaf_page(f, page_id) ==
    IF f.count = 0 THEN [ok |-> TRUE, v |-> FALSE, file |-> f]
    ELSE \* the read of the ids
         LET r == ReadIds(f, 0, f.count) IN
         IF ~r.ok THEN [ok |-> FALSE, v |-> r.v, file |-> f]
         ELSE LET pos == Position(r.v, page_id) IN
              IF pos = -1 THEN [ok |-> TRUE, v |-> FALSE, file |-> f]
              ELSE LET page_ids == RemoveAt(r.v, pos) IN
                   [ok |-> TRUE, v |-> TRUE,
                    file |-> [count |-> Len(page_ids),
                              ids |-> SubSeq(WriteIds(f, page_ids), 1,
                                             Len(page_ids))]]

\* get_all_leaf_pages: read_exact of count * 8 bytes after the header
get_all_leaf_pages(f) == ReadIds(f, 0, f.count)

\* get_leaf_page_batch.  start_index + batch_size is a usize addition: past
\* usize::MAX a build with overflow checks panics there, and a build without
\* them wraps the sum below start_index, wraps end_index - start_index to
\* more than isize::MAX / 8 and panics in Vec::with_capacity.
get_leaf_page_batch(f, start_index, batch_size) ==
    IF start_index >= f.count THEN [ok |-> TRUE, v |-> <<>>]
    ELSE IF start_index + batch_size > UsizeMax
    THEN [ok |-> FALSE, v |-> "panic"]
    ELSE LET end_index == Min({start_index + batch_size, f.count}) IN
         ReadIds(f, start_index, end_index - start_index)

\* get_leaf_page_count
get_leaf_page_count(f) == [ok |-> TRUE, v |-> f.count]

\* what is left of ids when one occurrence of id is taken out
Removals(ids, id) ==
    {RemoveAt(ids, i) : i \in {j \in 0..(Len(ids) - 1) : ids[j + 1] = id}}

RegistryFrame == UNCHANGED <<tableVars, ioVars, allocVars, scanVars, sequential>>

AddLeafPage(page_id) ==
    /\ Len(registry_file.ids) < MaxEntries
    /\ \E r \in {add_leaf_page(registry_file, page_id)} :
          /\ registry_file' = r.file
          /\ last' = [op |-> "add_leaf_page",
                      key |-> [page_id |-> page_id, before |-> registered],
                      ok |-> r.ok, res |-> r.v]
    /\ registered' = Append(registered, page_id)
    /\ RegistryFrame

RemoveLeafPage(page_id) ==
    /\ \E r \in {remove_leaf_page(registry_file, page_id)} :
          /\ registry_file' = r.file
          /\ last' = [op |-> "remove_leaf_page",
                      key |-> [page_id |-> page_id, before |-> registered],
                      ok |-> r.ok, res |-> r.v]
          /\ registered' =
                IF Removals(registered, page_id) = {} THEN registered
                ELSE IF r.file.ids \in Removals(registered, page_id)
                THEN r.file.ids
                ELSE CHOOSE ids \in Removals(registered, page_id) : TRUE
    /\ RegistryFrame

GetAllLeafPages ==
    /\ \E r \in {get_all_leaf_pages(registry_file)} :
          last' = [op |-> "get_all_leaf_pages", key |-> None, ok |-> r.ok,
                   res |-> r.v]
    /\ UNCHANGED regVars
    /\ RegistryFrame

GetLeafPageCount ==
    /\ \E r \in {get_leaf_page_count(registry_file)} :
          last' = [op |-> "get_leaf_page_count", key |-> None, ok |-> r.ok,
                   res |-> r.v]
    /\ UNCHANGED regVars
    /\ RegistryFrame

GetLeafPageBatch(start_index, batch_size) ==
    /\ \E r \in {get_leaf_page_batch(registry_file, start_index, batch_size)} :
          last' = [op |-> "get_leaf_page_batch",
                   key |-> [start_index |-> start_index,
                            batch_size |-> batch_size],
                   ok |-> r.ok, res |-> r.v]
    /\ UNCHANGED regVars
    /\ RegistryFrame

AddAny == \E page_id \in RegistryIds : AddLeafPage(page_id)

RemoveAny == \E page_id \in RegistryIds : RemoveLeafPage(page_id)

BatchAny ==
    \E start_index \in 0..UsizeMax, batch_size \in 0..UsizeMax :
       GetLeafPageBatch(start_index, batch_size)

NextRegistry ==
    \/ AddAny
    \/ RemoveAny
    \/ GetAllLeafPages
    \/ GetLeafPageCount
    \/ BatchAny

SpecRegistry == InitManager /\ [][NextRegistry]_vars

\* the elements of ids at the positions [from, to), counted from 0
Slice(ids, from, to) == SubSeq(ids, from + 1, to)

\* the registry file holds the sequence `registered` and nothing else
HoldsRegistered ==
    /\ registry_file.count = Len(registered)
    /\ registry_file.ids = registered

\* add_leaf_page, remove_leaf_page, get_all_leaf_pages and
\* get_leaf_page_count act on the file as on the sequence
RegistrySequence ==
    /\ HoldsRegistered
    /\ last.op = "add_leaf_page" =>
          last.ok /\ registered = Append(last.key.before, last.key.page_id)
    /\ last.op = "remove_leaf_page" =>
          /\ last.ok
          /\ last.res = (Removals(last.key.before, last.key.page_id) # {})
          /\ IF last.res
             THEN registered \in Removals(last.key.before, last.key.page_id)
             ELSE registered = last.key.before
    /\ last.op = "get_all_leaf_pages" => last.ok /\ last.res = registered
    /\ last.op = "get_leaf_page_count" =>
          last.ok /\ last.res = Len(registered)

\* get_leaf_page_batch(start, size) returns the positions
\* [start, min(start + size, count)), and nothing when start >= count
BatchIsSlice ==
    last.op = "get_leaf_page_batch" =>
       /\ last.ok
       /\ last.res =
             IF last.key.start_index >= Len(registered) THEN <<>>
             ELSE Slice(registered, last.key.start_index,
                        Min({last.key.start_index + last.key.batch_size,
                             Len(registered)}))

\* C25: the leaf registry behaves as a sequence of ids: add_leaf_page appends,
\* get_all_leaf_pages returns the ids in insertion order and
\* get_leaf_page_count their number, get_leaf_page_batch(start, size) returns
\* the positions [start, min(start + size, count)) and the empty list when
\* start >= count, remove_leaf_page(id) takes out one occurrence, keeps the
\* order of the others and returns true, or returns false and changes nothing
C25_RegistryIsSequence == RegistrySequence /\ BatchIsSlice

\* C25: get_leaf_page_batch(1, usize::MAX) on a registry of two ids panics
C25_BatchOverflow ==
    ~(/\ last.op = "get_leaf_page_batch"
      /\ Len(registered) = 2
      /\ last.key.start_index = 1
      /\ last.key.batch_size = UsizeMax
      /\ ~last.ok)

\* ------------------------------------------------------- values, as bytes
\* bindereh's Value and its encoding.  A value is its variant and its
\* payload: an integer, the UTF-8 bytes of a string or of a char, the bytes
\* of a Binary or of a Uuid, the eight bytes of an f64.

Value(type, v) == [type |-> type, v |-> v]

\* NULL_TYPE .. TINYINT_TYPE
TypeMarker(type) ==
    CASE type = "Null" -> 0 [] type = "Integer" -> 1 [] type = "String" -> 2
      [] type = "Float" -> 3 [] type = "Boolean" -> 4 [] type = "SmallInt" -> 5
      [] type = "BigInt" -> 6 [] type = "Decimal" -> 7 [] type = "Binary" -> 8
      [] type = "Date" -> 9 [] type = "Time" -> 10 [] type = "Timestamp" -> 11
      [] type = "DateTime" -> 12 [] type = "Json" -> 13 [] type = "Uuid" -> 14
      [] type = "Text" -> 15 [] type = "Char" -> 16 [] type = "TinyInt" -> 17

\* the bytes of to_le_bytes for an integer type of `width` bytes
RECURSIVE to_le_bytes(_, _)
to_le_bytes(n, width) ==
    IF width = 0 THEN <<>>
    ELSE <<n % 256>> \o to_le_bytes(n \div 256, width - 1)

\* from_le_bytes of an unsigned type
RECURSIVE unsigned_from_le_bytes(_)
unsigned_from_le_bytes(bytes) ==
    IF bytes = <<>> THEN 0
    ELSE Head(bytes) + 256 * unsigned_from_le_bytes(Tail(bytes))

\* from_le_bytes of a signed type
RECURSIVE signed_from_le_bytes(_)
signed_from_le_bytes(bytes) ==
    IF Len(bytes) = 1
    THEN IF bytes[1] >= 128 THEN bytes[1] - 256 ELSE bytes[1]
    ELSE Head(bytes) + 256 * signed_from_le_bytes(Tail(bytes))

\* bytes[from .. to), counted from 0
ByteSlice(bytes, from, to) == SubSeq(bytes, from + 1, to)

\* the length in bytes of the UTF-8 sequence a lead byte opens, 0 for a byte
\* that opens none
Utf8Len(lead) ==
    IF lead < 128 THEN 1
    ELSE IF lead >= 194 /\ lead < 224 THEN 2
    ELSE IF lead >= 224 /\ lead < 240 THEN 3
    ELSE IF lead >= 240 /\ lead < 245 THEN 4
    ELSE 0

IsContinuation(byte) == byte >= 128 /\ byte < 192

\* std::str::from_utf8 accepts the bytes: every byte opens a sequence that
\* its continuation bytes fill, or is a continuation byte of such a sequence
ValidUtf8(bytes) ==
    \A i \in 1..Len(bytes) :
       IF IsContinuation(bytes[i])
       THEN \E j \in (i - 3)..(i - 1) :
               /\ j >= 1
               /\ Utf8Len(bytes[j]) > i - j
               /\ \A k \in (j + 1)..(i - 1) : IsContinuation(bytes[k])
       ELSE /\ Utf8Len(bytes[i]) > 0
            /\ i + Utf8Len(bytes[i]) - 1 <= Len(bytes)
            /\ \A k \in (i + 1)..(i + Utf8Len(bytes[i]) - 1) :
                  IsContinuation(bytes[k])

\* serialize_string_like and serialize_binary: the length as u32, the data
serialize_string_like(data) == to_le_bytes(Len(data), 4) \o data

\* Value::to_bytes
value_to_bytes(value) ==
    CASE value.type = "Null" -> <<TypeMarker("Null")>>
      [] value.type \in {"Integer", "Timestamp", "DateTime"} ->
            <<TypeMarker(value.type)>> \o to_le_bytes(value.v, 8)
      [] value.type \in {"Float", "Uuid"} ->
            <<TypeMarker(value.type)>> \o value.v
      [] value.type = "Boolean" ->
            <<TypeMarker("Boolean"), IF value.v THEN 1 ELSE 0>>
      [] value.type = "SmallInt" ->
            <<TypeMarker("SmallInt")>> \o to_le_bytes(value.v, 2)
      [] value.type = "BigInt" ->
            <<TypeMarker("BigInt")>> \o to_le_bytes(value.v, 16)
      [] value.type \in {"String", "Decimal", "Binary", "Json", "Text"} ->
            <<TypeMarker(value.type)>> \o serialize_string_like(value.v)
      [] value.type \in {"Date", "Time"} ->
            <<TypeMarker(value.type)>> \o to_le_bytes(value.v, 4)
      [] value.type = "Char" ->
            <<TypeMarker("Char"), Len(value.v)>> \o value.v
      [] value.type = "TinyInt" ->
            <<TypeMarker("TinyInt")>> \o to_le_bytes(value.v, 1)

\* Value::serialized_size
serialized_size(value) ==
    CASE value.type = "Null" -> 1
      [] value.type \in {"Integer", "Float", "Timestamp", "DateTime"} -> 9
      [] value.type \in {"String", "Decimal", "Binary", "Json", "Text"} ->
            5 + Len(value.v)
      [] value.type \in {"Boolean", "TinyInt"} -> 2
      [] value.type = "SmallInt" -> 3
      [] value.type \in {"BigInt", "Uuid"} -> 17
      [] value.type \in {"Date", "Time"} -> 5
      [] value.type = "Char" -> 3 + Len(value.v)

\* ensure_bytes_available
ensure_bytes_available(bytes, offset, required) ==
    offset + required <= Len(bytes)

Decoded(type, v, offset) ==
    [ok |-> TRUE, v |-> Value(type, v), offset |-> offset]

Corrupted(offset) == [ok |-> FALSE, v |-> "CorruptedData", offset |-> offset]

\* a value of `width` bytes at offset, read by `read`
FixedWidth(bytes, offset, width, type, read(_)) ==
    IF ~ensure_bytes_available(bytes, offset, width) THEN Corrupted(offset)
    ELSE Decoded(type, read(ByteSlice(bytes, offset, offset + width)),
                 offset + width)

\* deserialize_string, and the Binary arm: a u32 length and as many bytes,
\* which a string has to hold as UTF-8
deserialize_string(bytes, offset, type) ==
    IF ~ensure_bytes_available(bytes, offset, 4) THEN Corrupted(offset)
    ELSE LET len == unsigned_from_le_bytes(ByteSlice(bytes, offset, offset + 4))
             data == ByteSlice(bytes, offset + 4, offset + 4 + len)
         IN  IF ~ensure_bytes_available(bytes, offset + 4, len)
             THEN Corrupted(offset + 4)
             ELSE IF type # "Binary" /\ ~ValidUtf8(data)
             THEN Corrupted(offset + 4)
             ELSE Decoded(type, data, offset + 4 + len)

\* the Char arm: a length byte of 1 to 4, that many bytes of UTF-8, and the
\* first char of them
deserialize_char(bytes, offset) ==
    IF ~ensure_bytes_available(bytes, offset, 1) THEN Corrupted(offset)
    ELSE LET char_len == bytes[offset + 1]
             data == ByteSlice(bytes, offset + 1, offset + 1 + char_len)
         IN  IF char_len = 0 \/ char_len > 4 THEN Corrupted(offset + 1)
             ELSE IF ~ensure_bytes_available(bytes, offset + 1, char_len)
             THEN Corrupted(offset + 1)
             ELSE IF ~ValidUtf8(data) THEN Corrupted(offset + 1)
             ELSE Decoded("Char", SubSeq(data, 1, Utf8Len(data[1])),
                          offset + 1 + char_len)

Same(bytes) == bytes

NotZero(bytes) == bytes[1] # 0

\* Value::from_bytes(bytes, &mut offset): the value, and the offset as the
\* call leaves it
value_from_bytes(bytes, offset) ==
    IF offset >= Len(bytes) THEN Corrupted(offset)
    ELSE LET type_marker == bytes[offset + 1]
             at == offset + 1
         IN  CASE type_marker = 0 -> Decoded("Null", <<>>, at)
               [] type_marker = 1 ->
                     FixedWidth(bytes, at, 8, "Integer", signed_from_le_bytes)
               [] type_marker = 2 -> deserialize_string(bytes, at, "String")
               [] type_marker = 3 -> FixedWidth(bytes, at, 8, "Float", Same)
               [] type_marker = 4 ->
                     FixedWidth(bytes, at, 1, "Boolean", NotZero)
               [] type_marker = 5 ->
                     FixedWidth(bytes, at, 2, "SmallInt", signed_from_le_bytes)
               [] type_marker = 6 ->
                     FixedWidth(bytes, at, 16, "BigInt", signed_from_le_bytes)
               [] type_marker = 7 -> deserialize_string(bytes, at, "Decimal")
               [] type_marker = 8 -> deserialize_string(bytes, at, "Binary")
               [] type_marker = 9 ->
                     FixedWidth(bytes, at, 4, "Date", signed_from_le_bytes)
               [] type_marker = 10 ->
                     FixedWidth(bytes, at, 4, "Time", unsigned_from_le_bytes)
               [] type_marker = 11 ->
                     FixedWidth(bytes, at, 8, "Timestamp",
                                signed_from_le_bytes)
               [] type_marker = 12 ->
                     FixedWidth(bytes, at, 8, "DateTime", signed_from_le_bytes)
               [] type_marker = 13 -> deserialize_string(bytes, at, "Json")
               [] type_marker = 14 -> FixedWidth(bytes, at, 16, "Uuid", Same)
               [] type_marker = 15 -> deserialize_string(bytes, at, "Text")
               [] type_marker = 16 -> deserialize_char(bytes, at)
               [] type_marker = 17 ->
                     FixedWidth(bytes, at, 1, "TinyInt", signed_from_le_bytes)
               [] OTHER -> Corrupted(at)

\* the eight bytes of an f64 are those of a NaN
IsNaN(f) == f[8] % 128 = 127 /\ f[7] >= 240 /\ (f[7] > 240 \/ \E i \in 1..6 : f[i] # 0)

\* the derived PartialEq of Value
ValueEq(a, b) ==
    /\ a.type = b.type
    /\ IF a.type = "Float" THEN ~IsNaN(a.v) /\ ~IsNaN(b.v) /\ a.v = b.v
       ELSE a.v = b.v

SignedInts == (0 - MaxVal)..MaxVal \cup {255, 0 - 256}

\* "", "hi", "é"
Texts == {<<>>, <<104, 105>>, <<195, 169>>}

\* 'a', 'é', '€', U+1F600
Chars ==
    {<<97>>, <<195, 169>>, <<226, 130, 172>>, <<240, 159, 152, 128>>}

\* 0.0, 1.5, NaN
Floats ==
    {<<0, 0, 0, 0, 0, 0, 0, 0>>, <<0, 0, 0, 0, 0, 0, 248, 63>>,
     <<0, 0, 0, 0, 0, 0, 248, 127>>}

Uuids == {[i \in 1..16 |-> 0], [i \in 1..16 |-> i]}

\* the values whose payload is an integer
IntegerValues ==
    {Value(t, n) :
        t \in {"Integer", "SmallInt", "BigInt", "Date", "Timestamp",
               "DateTime"},
        n \in SignedInts}
       \cup {Value("TinyInt", n) : n \in (0 - MaxVal)..MaxVal}
       \cup {Value("Time", n) : n \in 0..MaxVal \cup {256}}

\* the values whose payload is bytes, and Null
BytesValues ==
    {Value("Null", <<>>)}
       \cup {Value(t, s) : t \in {"String", "Decimal", "Json", "Text"},
                           s \in Texts}
       \cup {Value("Binary", b) : b \in Texts \cup {<<255>>}}
       \cup {Value("Float", f) : f \in Floats}
       \cup {Value("Uuid", u) : u \in Uuids}
       \cup {Value("Char", c) : c \in Chars}

BooleanValues == {Value("Boolean", b) : b \in BOOLEAN}

\* `before` zero bytes, the bytes of the value and `after` zero bytes are
\* handed to from_bytes with the offset at the value
Serialize(value, before, after) ==
    /\ last.op = "init"
    /\ \E bytes \in {value_to_bytes(value)} :
       \E r \in {value_from_bytes([i \in 1..before |-> 0] \o bytes
                                     \o [i \in 1..after |-> 0], before)} :
          last' = [op |-> "to_bytes",
                   key |-> [value |-> value, before |-> before],
                   ok |-> r.ok,
                   res |-> [len |-> Len(bytes),
                            serialized_size |-> serialized_size(value),
                            value |-> r.v, offset |-> r.offset]]
    /\ UNCHANGED <<tableVars, ioVars, taskVars>>

SerializeInteger ==
    \E value \in IntegerValues, before \in 0..MaxPad, after \in 0..MaxPad :
       Serialize(value, before, after)

SerializeBytes ==
    \E value \in BytesValues, before \in 0..MaxPad, after \in 0..MaxPad :
       Serialize(value, before, after)

SerializeBoolean ==
    \E value \in BooleanValues, before \in 0..MaxPad, after \in 0..MaxPad :
       Serialize(value, before, after)

NextValue ==
    \/ SerializeInteger
    \/ SerializeBytes
    \/ SerializeBoolean

SpecValue == InitManager /\ [][NextValue]_vars

\* C27: for every Value of every variant, a Char of 1 to 4 UTF-8 bytes among
\* them, serialized_size(v) is the length of to_bytes(v), and from_bytes on
\* to_bytes(v) advances the offset by exactly that length
C27_SerializedSize ==
    last.op = "to_bytes" =>
       /\ last.res.serialized_size = last.res.len
       /\ last.ok
       /\ last.res.offset = last.key.before + last.res.len

\* C27: serialized_size of a Char is one more than the bytes of to_bytes
C27_CharSize ==
    ~(/\ last.op = "to_bytes"
      /\ last.key.value.type = "Char"
      /\ last.res.serialized_size = last.res.len + 1)

\* -------------------------------------------------------- pages, as bytes
\* Page::to_bytes and Page::from_bytes byte by byte.  An Option<u64> is
\* written with unwrap_or(0) and 0 is read back as None, which here is 0.

PAGE_SIZE == 2048

NODE_HEADER_SIZE == 16

\* 0xDEADBEEF as write_u32::<LittleEndian> puts it
MAGIC_NUMBER == <<239, 190, 173, 222>>

\* write_u64 of every id
RECURSIVE write_u64s(_)
write_u64s(ids) ==
    IF ids = <<>> THEN <<>>
    ELSE to_le_bytes(Head(ids), 8) \o write_u64s(Tail(ids))

\* the values of a row: the length of each as u32, then its bytes
RECURSIVE write_values(_)
write_values(data) ==
    IF data = <<>> THEN <<>>
    ELSE to_le_bytes(Len(value_to_bytes(Head(data))), 4)
            \o value_to_bytes(Head(data)) \o write_values(Tail(data))

\* the rows of a leaf: the id, the number of values, the values
RECURSIVE write_rows(_)
write_rows(rows) ==
    IF rows = <<>> THEN <<>>
    ELSE to_le_bytes(Head(rows).id, 8) \o to_le_bytes(Len(Head(rows).data), 4)
            \o write_values(Head(rows).data) \o write_rows(Tail(rows))

\* Vec::resize(new_len, 0): cut, or filled with zeros
resize(bytes, new_len) ==
    [i \in 1..new_len |-> IF i <= Len(bytes) THEN bytes[i] ELSE 0]

\* Page::to_bytes
page_to_bytes(page) ==
    resize(MAGIC_NUMBER \o to_le_bytes(page.page_id, 8)
              \o <<IF page.is_leaf THEN 1 ELSE 0>>
              \o to_le_bytes(page.parent_page_id, 8)
              \o to_le_bytes(page.next_leaf_page_id, 8)
              \o to_le_bytes(Len(page.keys), 4) \o write_u64s(page.keys)
              \o (IF page.is_leaf
                  THEN to_le_bytes(Len(page.values), 4)
                          \o write_rows(page.values)
                  ELSE to_le_bytes(Len(page.child_page_ids), 4)
                          \o write_u64s(page.child_page_ids)),
           PAGE_SIZE)

Read(v, offset) == [ok |-> TRUE, v |-> v, offset |-> offset]

\* read_u32, read_u64 and read_u8 of the cursor: an error past the end
read_uint(bytes, offset, width) ==
    IF offset + width > Len(bytes) THEN Corrupted(offset)
    ELSE Read(unsigned_from_le_bytes(ByteSlice(bytes, offset, offset + width)),
              offset + width)

\* n calls of read_u64
RECURSIVE read_u64s(_, _, _, _)
read_u64s(bytes, offset, n, acc) ==
    IF n = 0 THEN Read(acc, offset)
    ELSE LET r == read_uint(bytes, offset, 8) IN
         IF ~r.ok THEN r
         ELSE read_u64s(bytes, r.offset, n - 1, Append(acc, r.v))

\* the values of one row: the length, the bounds check, Value::from_bytes on
\* the slice of that length, and the cursor set after the slice
RECURSIVE read_values(_, _, _, _)
read_values(bytes, offset, n, acc) ==
    IF n = 0 THEN Read(acc, offset)
    ELSE LET value_len == read_uint(bytes, offset, 4) IN
         IF ~value_len.ok THEN value_len
         ELSE IF value_len.offset + value_len.v > Len(bytes)
         THEN Corrupted(value_len.offset)
         ELSE LET value ==
                     value_from_bytes(
                        ByteSlice(bytes, value_len.offset,
                                  value_len.offset + value_len.v), 0)
              IN  IF ~value.ok THEN Corrupted(value_len.offset)
                  ELSE read_values(bytes, value_len.offset + value_len.v,
                                   n - 1, Append(acc, value.v))

\* the rows of a leaf
RECURSIVE read_rows(_, _, _, _)
read_rows(bytes, offset, n, acc) ==
    IF n = 0 THEN Read(acc, offset)
    ELSE LET row_id == read_uint(bytes, offset, 8) IN
         IF ~row_id.ok THEN row_id
         ELSE LET data_count == read_uint(bytes, row_id.offset, 4) IN
              IF ~data_count.ok THEN data_count
              ELSE LET row_data ==
                          read_values(bytes, data_count.offset, data_count.v,
                                      <<>>)
                   IN  IF ~row_data.ok THEN row_data
                       ELSE read_rows(bytes, row_data.offset, n - 1,
                               Append(acc, [id |-> row_id.v,
                                            data |-> row_data.v]))

\* Page::from_bytes
page_from_bytes(bytes) ==
    IF Len(bytes) < NODE_HEADER_SIZE THEN Corrupted(0)
    ELSE IF ByteSlice(bytes, 0, 4) # MAGIC_NUMBER THEN Corrupted(4)
    ELSE LET page_id == read_uint(bytes, 4, 8)
             is_leaf == bytes[13] = 1
             parent_page_id == read_uint(bytes, 13, 8)
             next_leaf_page_id == read_uint(bytes, 21, 8)
             key_count == read_uint(bytes, 29, 4)
             keys == read_u64s(bytes, 33, key_count.v, <<>>)
         IN  IF ~keys.ok THEN keys
             ELSE LET count == read_uint(bytes, keys.offset, 4) IN
                  IF ~count.ok THEN count
                  ELSE LET items ==
                              IF is_leaf
                              THEN read_rows(bytes, count.offset, count.v,
                                             <<>>)
                              ELSE read_u64s(bytes, count.offset, count.v,
                                             <<>>)
                       IN  IF ~items.ok THEN items
                           ELSE Read([Page(page_id.v, is_leaf,
                                           parent_page_id.v, keys.v,
                                           IF is_leaf THEN items.v ELSE <<>>,
                                           IF is_leaf THEN <<>> ELSE items.v,
                                           next_leaf_page_id.v)
                                      EXCEPT !.is_dirty = FALSE],
                                     items.offset)

\* the derived PartialEq of Row and of Page
RowEq(a, b) ==
    /\ a.id = b.id
    /\ Len(a.data) = Len(b.data)
    /\ \A i \in 1..Len(a.data) : ValueEq(a.data[i], b.data[i])

PageEq(a, b) ==
    /\ a.page_id = b.page_id
    /\ a.is_leaf = b.is_leaf
    /\ a.parent_page_id = b.parent_page_id
    /\ a.keys = b.keys
    /\ Len(a.values) = Len(b.values)
    /\ \A i \in 1..Len(a.values) : RowEq(a.values[i], b.values[i])
    /\ a.child_page_ids = b.child_page_ids
    /\ a.next_leaf_page_id = b.next_leaf_page_id
    /\ a.is_dirty = b.is_dirty

\* a text of half a page
LargeText == [i \in 1..(PAGE_SIZE \div 2) |-> 97]

\* the page ids a page of the tree may name
Links == {None, MaxPageId}

\* a leaf of n rows with the keys 1..n, every row over `data`
LeafOf(id, parent, next, n, data(_)) ==
    Page(id, TRUE, parent, [k \in 1..n |-> k],
         [k \in 1..n |-> [id |-> k, data |-> data(k)]], <<>>, next)

IntegerData(k) == <<Value("Integer", k), Value("SmallInt", 0 - k)>>

TextData(k) == <<Value("Text", <<104, 105>>), Value("Char", <<195, 169>>)>>

LargeData(k) == <<Value("Text", LargeText)>>

NaNData(k) == <<Value("Float", <<0, 0, 0, 0, 0, 0, 248, 127>>)>>

\* the sizes a page has between an empty one and one about to split
KeyCounts == 0..(MAX_KEYS_PER_NODE + 1)

\* to_bytes of the page, and from_bytes of the bytes
RoundTrip(page) ==
    /\ last.op = "init"
    /\ \E bytes \in {page_to_bytes(page)} :
       \E r \in {page_from_bytes(bytes)} :
          last' = [op |-> "page_to_bytes", key |-> page, ok |-> r.ok,
                   res |-> [len |-> Len(bytes), page |-> r.v]]
    /\ UNCHANGED <<tableVars, ioVars, taskVars>>

RoundTripIntegers ==
    \E id \in {1, MaxPageId}, parent \in Links, next \in Links, n \in KeyCounts :
       RoundTrip(LeafOf(id, parent, next, n, IntegerData))

RoundTripTexts ==
    \E id \in {1, MaxPageId}, parent \in Links, next \in Links, n \in KeyCounts :
       RoundTrip(LeafOf(id, parent, next, n, TextData))

RoundTripLarge ==
    \E id \in {1, MaxPageId}, n \in KeyCounts :
       RoundTrip(LeafOf(id, None, None, n, LargeData))

RoundTripNaN ==
    \E id \in {1, MaxPageId}, n \in KeyCounts :
       RoundTrip(LeafOf(id, None, None, n, NaNData))

RoundTripInternal ==
    \E id \in {1, MaxPageId}, parent \in Links, n \in KeyCounts :
       RoundTrip(Page(id, FALSE, parent, [k \in 1..n |-> k], <<>>,
                      [k \in 1..(n + 1) |-> k], None))

NextPage ==
    \/ RoundTripIntegers
    \/ RoundTripTexts
    \/ RoundTripLarge
    \/ RoundTripNaN
    \/ RoundTripInternal

SpecPage == InitManager /\ [][NextPage]_vars

\* C26: for every Page the tree operations can produce, leaf or internal,
\* of up to MAX_KEYS_PER_NODE + 1 keys and with rows of any size, to_bytes is
\* exactly PAGE_SIZE bytes long and from_bytes of it equals the page in every
\* field but is_dirty, which is false after decoding
C26_PageRoundTrip ==
    last.op = "page_to_bytes" =>
       /\ last.res.len = PAGE_SIZE
       /\ last.ok
       /\ PageEq(last.res.page, [last.key EXCEPT !.is_dirty = FALSE])

\* C26: a leaf of two rows that hold a text of half a page each does not
\* come back from its bytes
C26_LargeRows ==
    ~(/\ last.op = "page_to_bytes"
      /\ Len(last.key.values) = 2
      /\ last.key.values[1].data = <<Value("Text", LargeText)>>
      /\ ~last.ok)

\* ------------------------------------------------------------ the optimizer
\* diplomat's Optimizer over plans of TableScan, Filter, Projection and Limit
\* nodes and expressions of literals, columns, binary and unary operations.

Literal(value) == [kind |-> "Literal", value |-> value]

ColumnRef(name) == [kind |-> "Column", name |-> name]

BinaryOp(left, op, right) ==
    [kind |-> "BinaryOp", left |-> left, op |-> op, right |-> right]

UnaryOp(op, expr) == [kind |-> "UnaryOp", op |-> op, expr |-> expr]

TableScanNode(filters) == [kind |-> "TableScan", filters |-> filters]

FilterNode(predicate, input) ==
    [kind |-> "Filter", predicate |-> predicate, input |-> input]

ProjectionNode(expressions, input) ==
    [kind |-> "Projection", expressions |-> expressions, input |-> input]

LimitNode(input) == [kind |-> "Limit", input |-> input]

Done(v) == [ok |-> TRUE, v |-> v]

InternalError == [ok |-> FALSE, v |-> "InternalError"]

\* l / r of two i64: the quotient rounded towards zero
Quotient(l, r) ==
    IF (l < 0) = (r < 0)
    THEN (IF l < 0 THEN 0 - l ELSE l) \div (IF r < 0 THEN 0 - r ELSE r)
    ELSE 0 - ((IF l < 0 THEN 0 - l ELSE l) \div (IF r < 0 THEN 0 - r ELSE r))

\* evaluate_binary_op
evaluate_binary_op(left, op, right) ==
    IF left.type = "Integer" /\ right.type = "Integer"
    THEN CASE op = "Plus" -> Done(IntegerValue(left.v + right.v))
           [] op = "Minus" -> Done(IntegerValue(left.v - right.v))
           [] op = "Multiply" -> Done(IntegerValue(left.v * right.v))
           [] op = "Divide" ->
                 IF right.v = 0 THEN InternalError
                 ELSE Done(IntegerValue(Quotient(left.v, right.v)))
           [] op = "Gt" -> Done(BooleanValue(left.v > right.v))
           [] op = "Lt" -> Done(BooleanValue(left.v < right.v))
           [] op = "GtEq" -> Done(BooleanValue(left.v >= right.v))
           [] op = "LtEq" -> Done(BooleanValue(left.v <= right.v))
           [] op = "Eq" -> Done(BooleanValue(left.v = right.v))
           [] op = "NotEq" -> Done(BooleanValue(left.v # right.v))
           [] OTHER -> InternalError
    ELSE IF left.type = "Boolean" /\ right.type = "Boolean"
    THEN CASE op = "And" -> Done(BooleanValue(left.v = 1 /\ right.v = 1))
           [] op = "Or" -> Done(BooleanValue(left.v = 1 \/ right.v = 1))
           [] op = "Eq" -> Done(BooleanValue(left.v = right.v))
           [] op = "NotEq" -> Done(BooleanValue(left.v # right.v))
           [] OTHER -> InternalError
    ELSE InternalError

\* evaluate_unary_op
evaluate_unary_op(op, value) ==
    IF op = "Minus" /\ value.type = "Integer"
    THEN Done(IntegerValue(0 - value.v))
    ELSE IF op = "Not" /\ value.type = "Boolean"
    THEN Done(BooleanValue(value.v = 0))
    ELSE InternalError

\* fold_constants: an operation over literals becomes its value, and stays
\* as it is, folded below, where evaluate_binary_op or evaluate_unary_op
\* returns an error (or_else)
RECURSIVE fold_constants(_)
fold_constants(expr) ==
    IF expr.kind = "BinaryOp"
    THEN LET left_folded == fold_constants(expr.left)
             right_folded == fold_constants(expr.right)
         IN  IF ~left_folded.ok THEN left_folded
             ELSE IF ~right_folded.ok THEN right_folded
             ELSE IF /\ left_folded.v.kind = "Literal"
                     /\ right_folded.v.kind = "Literal"
             THEN LET r == evaluate_binary_op(left_folded.v.value, expr.op,
                                              right_folded.v.value)
                  IN  IF r.ok THEN Done(Literal(r.v))
                      ELSE Done(BinaryOp(left_folded.v, expr.op,
                                         right_folded.v))
             ELSE Done(BinaryOp(left_folded.v, expr.op, right_folded.v))
    ELSE IF expr.kind = "UnaryOp"
    THEN LET expr_folded == fold_constants(expr.expr) IN
         IF ~expr_folded.ok THEN expr_folded
         ELSE IF expr_folded.v.kind = "Literal"
         THEN LET r == evaluate_unary_op(expr.op, expr_folded.v.value) IN
              IF r.ok THEN Done(Literal(r.v))
              ELSE Done(UnaryOp(expr.op, expr_folded.v))
         ELSE Done(UnaryOp(expr.op, expr_folded.v))
    ELSE Done(expr)

\* fold_constants over the expressions of a projection, the first error
\* ending the loop
RECURSIVE FoldAll(_)
FoldAll(expressions) ==
    IF expressions = <<>> THEN Done(<<>>)
    ELSE LET first == fold_constants(Head(expressions))
             rest == FoldAll(Tail(expressions))
         IN  IF ~first.ok THEN first
             ELSE IF ~rest.ok THEN rest
             ELSE Done(<<first.v>> \o rest.v)

\* with_new_children of a plan and its one optimized input; a Limit comes
\* back as it was
with_new_children(plan, child) ==
    IF plan.kind \in {"Projection", "Filter"}
    THEN Done([plan EXCEPT !.input = child])
    ELSE Done(plan)

\* apply_constant_folding
RECURSIVE apply_constant_folding(_)
apply_constant_folding(plan) ==
    IF plan.kind = "Filter"
    THEN LET predicate == fold_constants(plan.predicate) IN
         IF ~predicate.ok THEN predicate
         ELSE LET optimized_input == apply_constant_folding(plan.input) IN
              IF ~optimized_input.ok THEN optimized_input
              ELSE Done(FilterNode(predicate.v, optimized_input.v))
    ELSE IF plan.kind = "Projection"
    THEN LET expressions == FoldAll(plan.expressions) IN
         IF ~expressions.ok THEN expressions
         ELSE LET optimized_input == apply_constant_folding(plan.input) IN
              IF ~optimized_input.ok THEN optimized_input
              ELSE Done(ProjectionNode(expressions.v, optimized_input.v))
    ELSE IF plan.kind = "TableScan" THEN Done(plan)
    ELSE LET child == apply_constant_folding(plan.input) IN
         IF ~child.ok THEN child ELSE with_new_children(plan, child.v)

\* the compare_values of the optimizer
CompareLiterals(left, right) ==
    IF left.type = "Integer" /\ right.type = "Integer"
    THEN Done(IF left.v < right.v THEN 0 - 1
              ELSE IF left.v > right.v THEN 1 ELSE 0)
    ELSE InternalError

\* are_conditions_contradictory: x > a AND x < b with a >= b
are_conditions_contradictory(left, right) ==
    /\ left.kind = "BinaryOp"
    /\ left.op = "Gt"
    /\ right.kind = "BinaryOp"
    /\ right.op = "Lt"
    /\ left.left = right.left
    /\ left.right.kind = "Literal"
    /\ right.right.kind = "Literal"
    /\ LET c == CompareLiterals(left.right.value, right.right.value) IN
       (IF c.ok THEN c.v ELSE 0) >= 0

\* simplify_conditions
RECURSIVE simplify_conditions(_)
simplify_conditions(expr) ==
    IF expr.kind = "BinaryOp" /\ expr.op = "And"
    THEN LET left_simplified == simplify_conditions(expr.left)
             right_simplified == simplify_conditions(expr.right)
         IN  IF ~left_simplified.ok THEN left_simplified
             ELSE IF ~right_simplified.ok THEN right_simplified
             ELSE LET l == left_simplified.v
                      r == right_simplified.v
                  IN  IF are_conditions_contradictory(l, r)
                      THEN Done(Literal(BooleanValue(FALSE)))
                      ELSE IF l = r THEN Done(l)
                      ELSE IF /\ l.kind = "BinaryOp"
                              /\ l.op = "Gt"
                              /\ r.kind = "BinaryOp"
                              /\ r.op = "Gt"
                              /\ l.left = r.left
                              /\ l.right.kind = "Literal"
                              /\ r.right.kind = "Literal"
                      THEN LET c == CompareLiterals(l.right.value,
                                                    r.right.value)
                           IN  IF ~c.ok THEN c
                               ELSE IF c.v > 0 THEN Done(l) ELSE Done(r)
                      ELSE Done(BinaryOp(l, "And", r))
    ELSE Done(expr)

\* simplify_filter_list of the filters of a scan, which are one at most
\* here: sort_by and dedup leave them
simplify_filter_list(filters) ==
    IF filters = <<>> THEN Done(<<>>)
    ELSE LET first == simplify_conditions(filters[1]) IN
         IF ~first.ok THEN first ELSE Done(<<first.v>>)

\* apply_condition_simplification
RECURSIVE apply_condition_simplification(_)
apply_condition_simplification(plan) ==
    IF plan.kind = "Filter"
    THEN LET predicate == simplify_conditions(plan.predicate) IN
         IF ~predicate.ok THEN predicate
         ELSE LET optimized_input ==
                     apply_condition_simplification(plan.input)
              IN  IF ~optimized_input.ok THEN optimized_input
                  ELSE Done(FilterNode(predicate.v, optimized_input.v))
    ELSE IF plan.kind = "TableScan"
    THEN LET filters == simplify_filter_list(plan.filters) IN
         IF ~filters.ok THEN filters ELSE Done(TableScanNode(filters.v))
    ELSE LET child == apply_condition_simplification(plan.input) IN
         IF ~child.ok THEN child ELSE with_new_children(plan, child.v)

\* can_push_through_projection
can_push_through_projection(predicate) ==
    predicate.kind \in {"Column", "BinaryOp"}

\* apply_predicate_pushdown; rewrite_predicate_for_projection is a clone
RECURSIVE apply_predicate_pushdown(_)
apply_predicate_pushdown(plan) ==
    IF plan.kind = "Filter"
    THEN IF plan.input.kind = "TableScan"
         THEN Done(TableScanNode(Append(plan.input.filters, plan.predicate)))
         ELSE IF plan.input.kind = "Projection"
         THEN IF can_push_through_projection(plan.predicate)
              THEN LET optimized_input ==
                          apply_predicate_pushdown(
                             FilterNode(plan.predicate, plan.input.input))
                   IN  IF ~optimized_input.ok THEN optimized_input
                       ELSE Done(ProjectionNode(plan.input.expressions,
                                                optimized_input.v))
              ELSE LET optimized_input ==
                          apply_predicate_pushdown(plan.input.input)
                   IN  IF ~optimized_input.ok THEN optimized_input
                       ELSE Done(FilterNode(plan.predicate,
                                    ProjectionNode(plan.input.expressions,
                                                   optimized_input.v)))
         ELSE LET optimized_input == apply_predicate_pushdown(plan.input) IN
              IF ~optimized_input.ok THEN optimized_input
              ELSE Done(FilterNode(plan.predicate, optimized_input.v))
    ELSE IF plan.kind = "TableScan" THEN Done(plan)
    ELSE LET child == apply_predicate_pushdown(plan.input) IN
         IF ~child.ok THEN child ELSE with_new_children(plan, child.v)

\* Optimizer::optimize
optimize(plan) ==
    LET folded == apply_constant_folding(plan) IN
    IF ~folded.ok THEN folded
    ELSE LET simplified == apply_condition_simplification(folded.v) IN
         IF ~simplified.ok THEN simplified
         ELSE apply_predicate_pushdown(simplified.v)

\* the literals and the column an expression is built of
Atoms ==
    {Literal(IntegerValue(n)) : n \in 0..MaxVal}
       \cup {Literal(BooleanValue(TRUE)), ColumnRef("a")}

Operations ==
    {BinaryOp(l, op, r) :
        l \in Atoms, op \in {"Divide", "Plus", "Gt", "Lt", "And"},
        r \in Atoms}

\* operations over an operation
Nested ==
    {BinaryOp(BinaryOp(ColumnRef("a"), o1, Literal(IntegerValue(m))), "And",
              BinaryOp(ColumnRef("a"), o2, Literal(IntegerValue(n)))) :
        o1 \in {"Gt", "Lt"}, o2 \in {"Gt", "Lt"}, m \in 0..MaxVal,
        n \in 0..MaxVal}
       \cup {BinaryOp(BinaryOp(Literal(IntegerValue(n)), "Divide",
                               Literal(IntegerValue(0))),
                      op, ColumnRef("a")) :
                n \in 0..MaxVal, op \in {"Plus", "Gt"}}
       \cup {UnaryOp("Minus", e) :
                e \in {Literal(IntegerValue(1)), ColumnRef("a"),
                       BinaryOp(Literal(IntegerValue(1)), "Divide",
                                Literal(IntegerValue(0)))}}

Scans == {TableScanNode(<<>>), TableScanNode(<<ColumnRef("a")>>)}

Optimize(plan) ==
    /\ last.op = "init"
    /\ \E r \in {optimize(plan)} :
          last' = [op |-> "optimize", key |-> plan, ok |-> r.ok, res |-> r.v]
    /\ UNCHANGED <<tableVars, ioVars, taskVars>>

OptimizeFilter ==
    \E predicate \in Operations \cup Nested, input \in Scans :
       Optimize(FilterNode(predicate, input))

OptimizeProjection ==
    \E expr \in Operations \cup Nested :
       Optimize(ProjectionNode(<<ColumnRef("a"), expr>>, TableScanNode(<<>>)))

OptimizeFilterOfProjection ==
    \E predicate \in Nested, expr \in Nested :
       Optimize(FilterNode(predicate,
                   ProjectionNode(<<expr>>, TableScanNode(<<>>))))

OptimizeLimit ==
    \E predicate \in Nested :
       Optimize(LimitNode(FilterNode(predicate, TableScanNode(<<>>))))

NextOptimizer ==
    \/ OptimizeFilter
    \/ OptimizeProjection
    \/ OptimizeFilterOfProjection
    \/ OptimizeLimit

SpecOptimizer == InitManager /\ [][NextOptimizer]_vars

\* the expression holds the division of an integer literal by the integer
\* literal 0
RECURSIVE DividesByZero(_)
DividesByZero(expr) ==
    \/ /\ expr.kind = "BinaryOp"
       /\ \/ /\ expr.op = "Divide"
             /\ expr.left.kind = "Literal"
             /\ expr.left.value.type = "Integer"
             /\ expr.right = Literal(IntegerValue(0))
          \/ DividesByZero(expr.left)
          \/ DividesByZero(expr.right)
    \/ expr.kind = "UnaryOp" /\ DividesByZero(expr.expr)

\* a Filter, a Projection or a scan of the plan holds such a division
RECURSIVE PlanDividesByZero(_)
PlanDividesByZero(plan) ==
    \/ plan.kind = "Filter" /\ DividesByZero(plan.predicate)
    \/ /\ plan.kind = "Projection"
       /\ \E i \in 1..Len(plan.expressions) : DividesByZero(plan.expressions[i])
    \/ /\ plan.kind = "TableScan"
       /\ \E i \in 1..Len(plan.filters) : DividesByZero(plan.filters[i])
    \/ plan.kind # "TableScan" /\ PlanDividesByZero(plan.input)

\* C28: Optimizer::optimize of a plan with a Filter or Projection expression
\* that divides an integer literal by the integer literal 0 returns an error
\* and not a plan that still holds the division
C28_DivideByZeroFails ==
    (last.op = "optimize" /\ PlanDividesByZero(last.key)) => ~last.ok

\* C28: optimize returns a plan that still holds the division by zero
C28_DivisionKept ==
    ~(/\ last.op = "optimize"
      /\ PlanDividesByZero(last.key)
      /\ last.ok
      /\ PlanDividesByZero(last.res))

\* ------------------------------------------------- put_page and its mutexes

\* C29: every put_page call returns, one that puts a new id into a pool that
\* holds max_pages pages among them: no Pool operation locks a mutex of the
\* pool whose guard the thread still holds
C29_PutPageReturns == last.op = "put_page" => last.ok

\* C29: no thread is left inside the pool with the cache mutex taken
C29_NoThreadStuck == ~cache_stuck

\* ------------------------------------------------- allocate_page and truncate

\* the pages of the data file that are an empty leaf: after a truncate, the
\* root it wrote
EmptyLeaves ==
    {id \in FilePages(file) :
        FilePage(file, id).is_leaf /\ FilePage(file, id).keys = <<>>}

\* C30: allocate_page never returns the id of a page of the current tree:
\* once truncate has written its fresh root leaf, an allocate_page returns an
\* id that is not the id of that root
C30_AllocateAvoidsRoot ==
    (last.op = "allocate_page" /\ truncated > 0 /\ tpc = "idle") =>
       last.res \notin EmptyLeaves

\* C30: the first allocate_page after a truncate returns 1, the id of the
\* root that the truncate wrote
C30_RootIdReturned ==
    ~(/\ last.op = "allocate_page"
      /\ truncated > 0
      /\ tpc = "idle"
      /\ returned = <<1>>
      /\ last.res = 1
      /\ 1 \in EmptyLeaves)

\* ---------------------------------------------------------- predicate update

\* the rows of a leaf after UpdateOperation::execute went over them: a row
\* that satisfies the predicate becomes a clone of new_values, id and data
UpdatedRows(values, pred, new_values) ==
    [i \in 1..Len(values) |->
        IF evaluate_predicate_optimized(pred, values[i]) THEN new_values
        ELSE values[i]]

\* the loop of UpdateOperation::execute over the registry snapshot: a leaf
\* that cannot be read is skipped, a leaf with a matching row is written
RECURSIVE UpdateLoop(_, _, _, _, _)
UpdateLoop(s, leaf_page_ids, pred, new_values, updated_count) ==
    IF leaf_page_ids = <<>> THEN Ok(s, updated_count)
    ELSE LET leaf_id == Head(leaf_page_ids) IN
         IF ~HasPage(s, leaf_id)
         THEN UpdateLoop(s, Tail(leaf_page_ids), pred, new_values,
                         updated_count)
         ELSE LET leaf_page == s.pages[leaf_id]
                  matching ==
                     {i \in 1..Len(leaf_page.values) :
                         evaluate_predicate_optimized(pred,
                                                      leaf_page.values[i])}
              IN  UpdateLoop(
                     IF matching = {} THEN s
                     ELSE write_page(s,
                             [leaf_page EXCEPT
                                !.values = UpdatedRows(@, pred, new_values),
                                !.is_dirty = TRUE]),
                     Tail(leaf_page_ids), pred, new_values,
                     updated_count + Cardinality(matching))

\* UpdateOperation::execute
update_execute(s, pred, new_values) ==
    UpdateLoop(s, s.reg, pred, new_values, 0)

\* UpdateOperation::execute(UpdateOptions::new(schema, pred, new_values))
Update(pred, new_values) ==
    \E r \in {update_execute(Store, pred, new_values)} :
       /\ pages' = r.s.pages
       /\ last' = [op |-> "update",
                   key |-> [predicate |-> pred, new_values |-> new_values],
                   ok |-> r.ok, res |-> r.v]
       /\ perm' = FALSE
       /\ UNCHANGED <<leaf_registry, next_page_id, root_page_id, expected>>
       /\ UNCHANGED ioVars
       /\ UNCHANGED taskVars

UpdateKeys == 1..MaxUpdateKey

UpdatePredicates ==
    [kind : {"ColumnEquals", "ColumnGreaterThan", "ColumnLessThan"},
     column : {1}, value : {k \in UpdateKeys : k % 2 = 0}]

InsertAny ==
    \E k \in UpdateKeys : next_page_id <= MaxUpdatePageId /\ Insert(k)

DeleteAny == \E pred \in UpdatePredicates : Delete(pred)

UpdateAny == \E pred \in UpdatePredicates : Update(pred, Row(1))

NextUpdate ==
    \/ InsertAny
    \/ DeleteAny
    \/ UpdateAny

SpecUpdate == Init /\ [][NextUpdate]_vars

\* every leaf page holds as many rows as keys, the i-th row under the i-th key
RowsUnderKeys(pgs) ==
    \A id \in DOMAIN pgs :
       pgs[id].is_leaf =>
          /\ Len(pgs[id].values) = Len(pgs[id].keys)
          /\ \A i \in 1..Len(pgs[id].keys) :
                pgs[id].values[i].id = pgs[id].keys[i]

\* C31: after any sequence of inserts, predicate updates and deletes, every
\* leaf page has values.len() == keys.len() and values[i].id == keys[i]; a
\* predicate update that rewrites a matching row leaves the row's id equal to
\* its key, also when several rows match
C31_RowIdsAreKeys == RowsUnderKeys(pages)

\* C31: an update has rewritten more than one row, and the rows of some leaf
\* are no longer under their keys
C31_SeveralRewritten ==
    ~(last.op = "update" /\ last.ok /\ last.res > 1 /\ ~RowsUnderKeys(pages))

\* ------------------------------------------- rows under handle_underflow

\* delete_from_leaf on the leaf the descent for `k` ends in, the first half
\* of a delete by primary key
DeleteFromLeafOf(k) ==
    LET f == IF HasPage(Store, root_page_id)
             THEN find_leaf_for_key(Store, k, pages[root_page_id], Fuel)
             ELSE Err(Store, "IoError")
        d == IF f.ok THEN delete_from_leaf(Store, f.v, k) ELSE f
    IN [s |-> d.s, ok |-> d.ok, v |-> d.v,
        leaf |-> IF f.ok THEN f.v ELSE None]

\* the call of handle_underflow that follows the Underflow of
\* DeleteFromLeafOf(k): the store it starts from, the store it leaves and the
\* root the caller goes on with
UnderflowCall(k) ==
    LET d == DeleteFromLeafOf(k)
        h == handle_underflow(d.s, d.leaf, Fuel)
    IN [key |-> k, before |-> d.s, after |-> h.s, ok |-> h.ok,
        new_root |-> IF h.ok /\ h.v # None THEN h.v ELSE root_page_id]

\* the calls of handle_underflow a delete by primary key would make in this
\* state, one per key whose delete_from_leaf reports Underflow
UnderflowCalls ==
    {UnderflowCall(k) :
        k \in {j \in TreeKeys : /\ DeleteFromLeafOf(j).ok
                                /\ DeleteFromLeafOf(j).v = "Underflow"}}

\* C32: handle_underflow never adds, drops or duplicates a row: the keys and
\* the rows along the leaf chain are the same sequences before and after the
\* call, and a chain that was sorted stays sorted
C32_UnderflowKeepsRows ==
    \A c \in UnderflowCalls :
       /\ ChainKeys(c.after.pages, c.new_root)
             = ChainKeys(c.before.pages, root_page_id)
       /\ ChainRows(c.after.pages, c.new_root)
             = ChainRows(c.before.pages, root_page_id)
       /\ Ascending(ChainKeys(c.before.pages, root_page_id))
             => Ascending(ChainKeys(c.after.pages, c.new_root))

\* C32: a handle_underflow that starts from a sorted chain leaves no key
\* twice along the chain
C32_NoRowTwice ==
    \A c \in UnderflowCalls :
       Ascending(ChainKeys(c.before.pages, root_page_id))
          => \A i, j \in 1..Len(ChainKeys(c.after.pages, c.new_root)) :
                i # j => ChainKeys(c.after.pages, c.new_root)[i]
                            # ChainKeys(c.after.pages, c.new_root)[j]

\* ------------------------------------------- the count of a bulk delete

\* the number of rows of `rows` that satisfy `pred`
Satisfying(rows, pred) == Len(rows) - Len(Survivors(rows, pred))

\* the root the caller of a bulk delete goes on with
RootAfter(r) ==
    IF r.ok /\ r.v.new_root_id # None THEN r.v.new_root_id ELSE root_page_id

\* C33: the deleted_count a predicate bulk delete returns is the number of
\* rows along the leaf chain that satisfied the predicate before the call,
\* and it is the number of chain rows before the call minus the number
\* after it
C33_DeletedCount ==
    \A pred \in Predicates :
       \A r \in {delete_by_predicate_with_tree_maintenance(Store, pred)} :
          r.ok =>
             /\ r.v.deleted_count
                   = Satisfying(ChainRows(pages, root_page_id), pred)
             /\ r.v.deleted_count
                   = Len(ChainRows(pages, root_page_id))
                        - Len(ChainRows(r.s.pages, RootAfter(r)))

\* C33: a bulk delete on a table whose chain is in ascending key order counts
\* no row twice: deleted_count is at most the number of chain rows that
\* satisfied the predicate
C33_NotCountedTwice ==
    \A pred \in Predicates :
       \A r \in {delete_by_predicate_with_tree_maintenance(Store, pred)} :
          (r.ok /\ Ascending(ChainKeys(pages, root_page_id)))
             => r.v.deleted_count
                   <= Satisfying(ChainRows(pages, root_page_id), pred)

\* ------------------------------------------------------------ batch insert

\* a caller that calls InsertOperation::execute once per row and replaces its
\* root id whenever Some(new_root_id) comes back, up to the first error:
\* `root` is the root id it holds then, `changed` whether any call returned
\* Some, `done` the number of rows inserted
RECURSIVE ExecuteEach(_, _, _, _, _)
ExecuteEach(s, rows, root, changed, done) ==
    IF rows = <<>>
    THEN [s |-> s, ok |-> TRUE, root |-> root, changed |-> changed,
          done |-> done]
    ELSE Only({IF ~r.ok
               THEN [s |-> r.s, ok |-> FALSE, root |-> root,
                     changed |-> changed, done |-> done]
               ELSE ExecuteEach(r.s, Tail(rows),
                                IF r.v # None THEN r.v ELSE root,
                                changed \/ r.v # None, done + 1) :
               r \in {execute(s, Head(rows), root)}})

BatchKeys == 1..MaxBatchKey

\* the batches offered to execute_batch
RowBatches ==
    UNION {[1..n -> {Row(k) : k \in BatchKeys}] : n \in 1..MaxBatchLen}

\* InsertOperation::execute_batch(rows, root_page_id) as main.rs calls it:
\* the caller replaces its root id exactly when Ok(Some(new_root)) comes
\* back; `each` is what ExecuteEach makes of the same rows from the same
\* table, `same` whether it leaves the pages, the registry and the page
\* counter the batch leaves
InsertBatch(rows) ==
    /\ next_page_id <= MaxBatchPageId
    /\ \E b \in {execute_batch(Store, rows, root_page_id, None)},
          e \in {ExecuteEach(Store, rows, root_page_id, FALSE, 0)} :
          /\ pages' = b.s.pages
          /\ leaf_registry' = b.s.reg
          /\ next_page_id' = b.s.next
          /\ root_page_id' = IF b.ok /\ b.v # None THEN b.v ELSE root_page_id
          /\ expected' = expected \cup {rows[i].id : i \in 1..e.done}
          /\ perm' = FALSE
          /\ last' = [op |-> "execute_batch", key |-> Len(rows), ok |-> b.ok,
                      res |-> b.v,
                      each |-> [ok |-> e.ok, root |-> e.root,
                                changed |-> e.changed, done |-> e.done,
                                same |-> (e.s = b.s)]]
          /\ UNCHANGED ioVars
          /\ UNCHANGED taskVars

InsertOne == \E k \in BatchKeys : next_page_id <= MaxBatchPageId /\ Insert(k)

InsertSome == \E rows \in RowBatches : InsertBatch(rows)

NextInsertBatch ==
    \/ InsertOne
    \/ InsertSome

SpecInsertBatch == Init /\ [][NextInsertBatch]_vars

\* C34: when execute_batch returns an error, the root id the caller passed,
\* which is the one it still holds, is the root the rows before the failing
\* one left: no root change of an earlier row of the batch is lost
C34_FailedBatchKeepsRoot ==
    (last.op = "execute_batch" /\ ~last.ok)
        => last.each.root = root_page_id

\* C34: after a failed execute_batch the descent from the root id the caller
\* holds finds every key of the leaf chain
C34_CallerRootFindsRows ==
    (last.op = "execute_batch" /\ ~last.ok)
        => \A k \in Range(ChainKeys(pages, last.each.root)) :
              \E f \in {find_leaf_for_key(Store, k, pages[root_page_id],
                                          Fuel)} :
                 f.ok /\ k \in Range(pages[f.v].keys)

\* C35: a successful execute_batch(rows, r0) leaves the pages and the leaf
\* registry that calling execute once per row leaves, the caller replacing
\* its root whenever a new one comes back; it returns Some(r) exactly when
\* one of those calls changed the root, and r is the root after the last row
C35_BatchIsEachRow ==
    (last.op = "execute_batch" /\ last.ok)
        => /\ last.each.ok
           /\ last.each.same
           /\ (last.res # None) <=> last.each.changed
           /\ last.res # None => last.res = last.each.root
           /\ root_page_id = last.each.root

\* a batch has succeeded whose first row changed the root and whose second
\* row was inserted under the new root
C35_Witness ==
    /\ last.op = "execute_batch"
    /\ last.ok
    /\ last.key = 2
    /\ last.each.done = 2
    /\ last.each.changed
    /\ last.res = 3
    /\ pages[1].keys = <<1, 2>>
    /\ pages[2].keys = <<3, 4, 5, 6>>

\* ------------------------------------------------- evictions and dirty pages

DirtyIds == 1..MaxDirtyId

NextDirty ==
    \/ \E id \in DirtyIds : GetPage(id)
    \/ \E id \in DirtyIds, is_dirty \in BOOLEAN : PutPage(id, is_dirty)
    \/ \E id \in DirtyIds : MarkDirty(id)
    \/ \E id \in DirtyIds : ClearDirty(id)
    \/ ClearAll
    \/ \E id \in DirtyIds : RemovePage(id)
    \/ EvictOldest

SpecDirty == Init /\ [][NextDirty]_vars

SequentialOptions ==
    {o \in ScanOptionsSet : /\ o.predicate = <<>>
                            /\ o.projection = <<>>
                            /\ o.offset = <<>>
                            /\ o.order_by = <<>>}

\* the file system under a scan: read_page of `leaf` returns Err each time
\* when `persistent` (a page that from_bytes rejects), and `left` more times
\* otherwise
FaultSet ==
    [leaf : {None} \cup DOMAIN pages, left : 0..MaxFaults, persistent : BOOLEAN]

\* Manager::read_page(page_id) returns Err under the faults f
ReadFails(s, f, page_id) ==
    \/ ~HasPage(s, page_id)
    \/ f.leaf = page_id /\ (f.persistent \/ f.left > 0)

\* the faults after one read_page(page_id)
FaultsAfter(s, f, page_id) ==
    IF HasPage(s, page_id) /\ f.leaf = page_id /\ ~f.persistent /\ f.left > 0
    THEN [f EXCEPT !.left = @ - 1] ELSE f

\* sequential_scan after its loop: sorting, offset and limit, Ok(ScanResult)
SequentialReturn(q) ==
    [q EXCEPT !.pc = "returned", !.current_leaf_id = None, !.requests = 0,
              !.result = [ok |-> TRUE,
                          v |-> [rows |-> SortOffsetLimit(q.acc.rows, q.options),
                                 total_scanned |-> q.acc.total_scanned,
                                 pages_read |-> q.acc.pages_read,
                                 filtered_count |-> q.acc.filtered_count]]]

\* the body of the loop of sequential_scan once leaf_page is read: the rows
\* of the page, the break at the limit, the step to next_leaf_page_id
SequentialPage(q, leaf_page) ==
    Only({
        IF /\ effective_limit(q.options) # <<>>
           /\ a.filtered_count >= effective_limit(q.options)[1]
        THEN SequentialReturn([q EXCEPT !.acc = a])
        ELSE [q EXCEPT !.pc = "read", !.acc = a, !.requests = 0,
                       !.current_leaf_id = leaf_page.next_leaf_page_id]
        : a \in {ScanRows(leaf_page.values, 1, q.options,
                          [q.acc EXCEPT !.pages_read = @ + 1])}})

\* one more read_page of the current leaf, counted up to MaxRequests
Requested(q) ==
    [q EXCEPT !.requests = IF @ < MaxRequests THEN @ + 1 ELSE @,
              !.faults = FaultsAfter(Store, q.faults, q.current_leaf_id)]

SequentialFrame == UNCHANGED <<treeVars, ioVars, allocVars, scanVars, regVars>>

\* ScanOperation::execute with parallel false on a file system with the
\* faults f: find_leftmost_leaf, then sequential_scan up to its loop
SequentialStart(opts, f) ==
    /\ sequential.pc = "idle"
    /\ options = <<>>
    /\ \E l \in {find_leftmost_leaf(Store, root_page_id, Fuel)} :
          sequential' =
              IF ~l.ok
              THEN [IdleSequential EXCEPT !.pc = "returned",
                                          !.result = [ok |-> FALSE, v |-> l.v]]
              ELSE [pc |-> "read", current_leaf_id |-> l.v, faults |-> f,
                    requests |-> 0, result |-> None, options |-> opts,
                    acc |-> NoRows]
    /\ SequentialFrame

\* the head of the loop of sequential_scan and the first attempt of
\* safe_read_page; after an Err the task sleeps 100 ms
SequentialRead ==
    /\ sequential.pc = "read"
    /\ sequential' =
          IF sequential.current_leaf_id = None
          THEN SequentialReturn(sequential)
          ELSE IF ReadFails(Store, sequential.faults,
                            sequential.current_leaf_id)
          THEN [Requested(sequential) EXCEPT !.pc = "retry"]
          ELSE SequentialPage(Requested(sequential),
                              pages[sequential.current_leaf_id])
    /\ SequentialFrame

\* the second attempt of safe_read_page; on its Err the loop of
\* sequential_scan takes the arm `if let Some(next_id) = current_leaf_id`,
\* which holds because the loop was entered, and continues with the same id
SequentialRetry ==
    /\ sequential.pc = "retry"
    /\ sequential' =
          IF ReadFails(Store, sequential.faults, sequential.current_leaf_id)
          THEN [Requested(sequential) EXCEPT !.pc = "read"]
          ELSE SequentialPage(Requested(sequential),
                              pages[sequential.current_leaf_id])
    /\ SequentialFrame

\* the caller takes the result of the scan
SequentialDone ==
    /\ sequential.pc = "returned"
    /\ sequential' = IdleSequential
    /\ SequentialFrame

SequentialStartAny ==
    \E opts \in SequentialOptions : \E f \in FaultSet :
        /\ f.leaf # None
        /\ f.persistent => f.left = 0
        /\ SequentialStart(opts, f)

NextSequential ==
    \/ SequentialStartAny
    \/ SequentialRead
    \/ SequentialRetry
    \/ SequentialDone

SpecSequential == InitScan /\ [][NextSequential]_vars

\* the runtime polls the task of the scan until it returns, and the sleep
\* of safe_read_page ends
SpecSequentialFair ==
    /\ SpecSequential
    /\ WF_vars(SequentialRead)
    /\ WF_vars(SequentialRetry)

C37_NoThirdRequest == sequential.requests <= 2

\* ------------------------------------- the registry against the leaf chain

\* Manager::read_page_header: (page_id, is_leaf, next_leaf_page_id) from the
\* first bytes of the page in the file, which to_bytes wrote in that order
read_page_header(s, page_id) ==
    IF ~HasPage(s, page_id) THEN [ok |-> FALSE, v |-> "IoError"]
    ELSE [ok |-> TRUE,
          v |-> [page_id |-> s.pages[page_id].page_id,
                 is_leaf |-> s.pages[page_id].is_leaf,
                 next_leaf_page_id |-> s.pages[page_id].next_leaf_page_id]]

\* the loop of rebuild_from_tree and of validate_consistency: the id is
\* pushed, then its header is read; an Err and a page that is no leaf end
\* the loop, a chain that runs in a circle never ends it
RECURSIVE TraverseHeaders(_, _, _, _)
TraverseHeaders(s, current_leaf_id, leaf_page_ids, fuel) ==
    IF current_leaf_id = None THEN [ok |-> TRUE, v |-> leaf_page_ids]
    ELSE IF fuel = 0 THEN [ok |-> FALSE, v |-> "never returns"]
    ELSE Only({
        IF ~h.ok \/ ~h.v.is_leaf
        THEN [ok |-> TRUE, v |-> Append(leaf_page_ids, current_leaf_id)]
        ELSE TraverseHeaders(s, h.v.next_leaf_page_id,
                             Append(leaf_page_ids, current_leaf_id), fuel - 1)
        : h \in {read_page_header(s, current_leaf_id)}})

\* rebuild_from_tree that writes the ids and leaves the count field alone
rebuild_from_tree_old_count(s, f, root) ==
    Only({
        IF ~l.ok THEN [ok |-> FALSE, v |-> l.v, file |-> f]
        ELSE IF l.v = None
        THEN [ok |-> FALSE, v |-> "InvalidOperation", file |-> f]
        ELSE Only({
            IF ~t.ok THEN [ok |-> FALSE, v |-> t.v, file |-> f]
            ELSE [ok |-> TRUE, v |-> None,
                  file |-> [count |-> f.count,
                            ids |-> SubSeq(WriteIds(f, t.v), 1, Len(t.v))]]
            : t \in {TraverseHeaders(s, l.v, <<>>, Fuel)}})
        : l \in {find_leftmost_leaf(s, root, Fuel)}})

\* LeafPageRegistry::rebuild_from_tree on the registry file f: magic, count
\* and ids are written from the start of the file, set_len cuts the rest
rebuild_from_tree(s, f, root) ==
    Only({
        IF ~l.ok THEN [ok |-> FALSE, v |-> l.v, file |-> f]
        ELSE IF l.v = None
        THEN [ok |-> FALSE, v |-> "InvalidOperation", file |-> f]
        ELSE Only({
            IF ~t.ok THEN [ok |-> FALSE, v |-> t.v, file |-> f]
            ELSE [ok |-> TRUE, v |-> None,
                  file |-> [count |-> Len(t.v),
                            ids |-> SubSeq(WriteIds(f, t.v), 1, Len(t.v))]]
            : t \in {TraverseHeaders(s, l.v, <<>>, Fuel)}})
        : l \in {find_leftmost_leaf(s, root, Fuel)}})

\* LeafPageRegistry::validate_consistency: registry_pages == tree_pages, a
\* comparison of two Vec<u64>
validate_consistency(s, f, root) ==
    Only({
        IF ~g.ok THEN g
        ELSE Only({
            IF ~l.ok THEN [ok |-> FALSE, v |-> l.v]
            ELSE IF l.v = None THEN [ok |-> FALSE, v |-> "InvalidOperation"]
            ELSE Only({
                IF ~t.ok THEN t ELSE [ok |-> TRUE, v |-> (g.v = t.v)]
                : t \in {TraverseHeaders(s, l.v, <<>>, Fuel)}})
            : l \in {find_leftmost_leaf(s, root, Fuel)}})
        : g \in {get_all_leaf_pages(f)}})

\* the registry file that holds ids and nothing else
RegistryFileOf(ids) == [count |-> Len(ids), ids |-> ids]

\* Manager::validate_leaf_registry(root_page_id)
ValidateRegistry ==
    /\ \E r \in {validate_consistency(Store, RegistryFileOf(leaf_registry),
                                      root_page_id)} :
          last' = [op |-> "validate_leaf_registry", key |-> root_page_id,
                   ok |-> r.ok, res |-> r.v]
    /\ UNCHANGED <<tableVars, ioVars, taskVars>>

\* Manager::rebuild_leaf_registry(root_page_id); res is the registry the
\* call found
RebuildRegistry ==
    /\ \E r \in {rebuild_from_tree(Store, RegistryFileOf(leaf_registry),
                                   root_page_id)} :
          /\ leaf_registry' = r.file.ids
          /\ last' = [op |-> "rebuild_leaf_registry", key |-> root_page_id,
                      ok |-> r.ok, res |-> leaf_registry]
    /\ perm' = FALSE
    /\ UNCHANGED <<pages, next_page_id, root_page_id, expected, ioVars,
                   taskVars>>

RebuildKeys == 1..MaxRebuildKey

InsertKey == \E k \in RebuildKeys : next_page_id <= MaxRebuildPageId /\ Insert(k)

DeleteAKey == \E k \in RebuildKeys : DeleteKey(k)

NextRebuild ==
    \/ InsertKey
    \/ DeleteAKey
    \/ ValidateRegistry
    \/ RebuildRegistry

SpecRebuild == InitScan /\ [][NextRebuild]_vars

\* the ids of ids, each as often as it occurs there
IdBag(ids) == [id \in Range(ids) |-> Cardinality({i \in 1..Len(ids) : ids[i] = id})]

\* C38: whenever the registry holds exactly the ids of the leaves of the
\* chain, each once, validate_leaf_registry(root) returns true, whatever
\* the order in which the leaves were created
C38_ExactIdsValidate ==
    (/\ last.op = "validate_leaf_registry"
     /\ IdBag(leaf_registry) = IdBag(LeafChain(pages, root_page_id))
     /\ \A id \in Range(leaf_registry) : IdBag(leaf_registry)[id] = 1)
    => (last.ok /\ last.res = TRUE)

\* the chain from the leftmost leaf runs through leaves of the file, each
\* once, and ends at a leaf without a next leaf
WellFormedChain(pgs, root) ==
    LET c == LeafChain(pgs, root)
    IN /\ c # <<>>
       /\ \A i \in 1..Len(c) : pgs[c[i]].is_leaf
       /\ pgs[c[Len(c)]].next_leaf_page_id = None

\* the registry files a rebuild may find: shorter and longer than the chain,
\* with ids of pages that are no leaves, with a count below its words
StaleFiles ==
    UNION {{[count |-> n, ids |-> q] : n \in 0..Len(q)}
           : q \in {leaf_registry, leaf_registry \o leaf_registry}
                   \cup UNION {[1..n -> 1..MaxStaleId] : n \in 0..MaxStaleLen}}

\* C39: after rebuild_leaf_registry(root) on a well-formed tree,
\* get_all_leaf_page_ids() returns the ids of the leaf chain from the
\* leftmost leaf in chain order, whatever the registry held before, and
\* validate_leaf_registry(root) then returns true
C39_RebuildGivesChain ==
    WellFormedChain(pages, root_page_id) =>
        /\ \A f \in StaleFiles :
           \A r \in {rebuild_from_tree(Store, f, root_page_id)} :
              /\ r.ok
              /\ get_all_leaf_pages(r.file)
                    = [ok |-> TRUE, v |-> LeafChain(pages, root_page_id)]
              /\ validate_consistency(Store, r.file, root_page_id)
                    = [ok |-> TRUE, v |-> TRUE]
        /\ last.op = "rebuild_leaf_registry" =>
              /\ last.ok
              /\ leaf_registry = LeafChain(pages, root_page_id)

\* a rebuild has put a registry of three leaves, which listed them in the
\* order of their creation, into the order of the chain
C39_Witness ==
    /\ last.op = "rebuild_leaf_registry"
    /\ last.ok
    /\ WellFormedChain(pages, root_page_id)
    /\ Len(leaf_registry) >= 3
    /\ last.res # leaf_registry
    /\ IdBag(last.res) = IdBag(leaf_registry)

================================================================================
